---- MODULE Spec2Model ----
(***************************************************************************)
(* Transcript formatter (backend/formatter.py): the chunker                *)
(* split_text_into_chunks, the rule-based segmenter pseudo_segment_chunk,  *)
(* the chunk loop of format_transcript_with_claude with its retry, JSON     *)
(* parse / repair, coverage guard and fallback paths, add_formatted_text,  *)
(* and the /format endpoint of backend/main.py with its semaphore.         *)
(*                                                                         *)
(* Texts are sequences of one-character strings.  Python indices are       *)
(* zero-based; Slice, find and rfind below take and return zero-based      *)
(* indices exactly as the Python calls they model.                         *)
(***************************************************************************)
EXTENDS Integers, Sequences, FiniteSets, TLC

VARIABLES
    text,                   \* the raw transcript
    max_chunk_size,         \* split_text_into_chunks: parameter
    chunks,                 \* split_text_into_chunks: the list being built
    current_pos,            \* split_text_into_chunks: loop variable
    pc,                     \* position in the code
    caller,                 \* who called split_text_into_chunks
    env,                    \* the environment: configuration and what the env may answer
    i,                      \* chunk loop index (zero-based, as enumerate gives it)
    all_segments,           \* format_transcript_with_claude: accumulated segments
    title,                  \* format_transcript_with_claude: title or None
    tpm_window_start,       \* pacing: start of the rolling window
    tokens_used_in_window,  \* pacing: tokens counted in the window
    clock,                  \* time.time(), in ticks
    attempts,               \* retry loop: attempts made for the current chunk
    backoff,                \* retry loop: next backoff sleep, in seconds
    full_response,          \* response text of the current chunk, or None
    data,                   \* the combined result (lines 435-438), or None
    hist,                   \* history: per chunk, what happened (observer only)
    arg_raw_text,           \* pseudo_segment_chunk called on its own: raw_text
    ret_segments,           \* pseudo_segment_chunk called on its own: returned list
    emphasis_list,          \* add_formatted_text called on its own: emphasis_list
    para,                   \* add_formatted_text called on its own: the runs of para
    requests,               \* main.py: position of each /format request
    format_semaphore        \* main.py: value of asyncio.Semaphore(1)

vars == <<text, max_chunk_size, chunks, current_pos, pc, caller, env, i,
          all_segments, title, tpm_window_start, tokens_used_in_window, clock,
          attempts, backoff, full_response, data, hist,
          arg_raw_text, ret_segments, emphasis_list, para, requests, format_semaphore>>

-----------------------------------------------------------------------------
(* Python values.                                                          *)

\* Python's None, for the variables that hold either None or a string/record.
None == [t |-> "none", v |-> 0]

Min(a, b) == IF a < b THEN a ELSE b
Max(a, b) == IF a > b THEN a ELSE b
SetMin(S) == CHOOSE x \in S : \A y \in S : x <= y
SetMax(S) == CHOOSE x \in S : \A y \in S : x >= y

\* A slice index as Python normalises it: negative counts from the end,
\* and the result is clamped to 0..n.
NormIdx(n, k) ==
    IF k < 0 THEN (IF n + k < 0 THEN 0 ELSE n + k)
    ELSE IF k > n THEN n ELSE k

\* s[lo:hi]
Slice(s, lo, hi) ==
    SubSeq(s, NormIdx(Len(s), lo) + 1, NormIdx(Len(s), hi))

\* s[lo:]
SliceFrom(s, lo) == Slice(s, lo, Len(s))

\* sub occurs in s at zero-based index p
MatchAt(s, sub, p) ==
    /\ p >= 0
    /\ p + Len(sub) <= Len(s)
    /\ SubSeq(s, p + 1, p + Len(sub)) = sub

\* s.find(sub, start, end): lowest index in s[start:end] where sub occurs, or -1
find(s, sub, start, end) ==
    LET lo == NormIdx(Len(s), start)
        hi == NormIdx(Len(s), end)
        at == {p \in lo..(hi - Len(sub)) : MatchAt(s, sub, p)}
    IN  IF at = {} THEN -1 ELSE SetMin(at)

\* s.rfind(sub, start, end): highest such index, or -1
rfind(s, sub, start, end) ==
    LET lo == NormIdx(Len(s), start)
        hi == NormIdx(Len(s), end)
        at == {p \in lo..(hi - Len(sub)) : MatchAt(s, sub, p)}
    IN  IF at = {} THEN -1 ELSE SetMax(at)

\* sub in s
Contains(s, sub) == find(s, sub, 0, Len(s)) # -1

RECURSIVE Concat(_)
\* "".join(list_of_strings), also the flattening of a list of lists
Concat(ss) == IF ss = <<>> THEN <<>> ELSE Head(ss) \o Concat(Tail(ss))

-----------------------------------------------------------------------------
(* JSON values as Python holds them after json.loads.  Every value is a    *)
(* record [t, v]: t the Python type, v the payload.  A dict is the         *)
(* sequence of its <<key, value>> pairs in insertion order (keys unique),  *)
(* a list the sequence of its items, a str the sequence of its characters. *)

PyBool(b) == [t |-> "bool", v |-> b]
PyInt(n) == [t |-> "int", v |-> n]
PyFloat(name) == [t |-> "float", v |-> name]
PyStr(cs) == [t |-> "str", v |-> cs]
PyList(items) == [t |-> "list", v |-> items]
PyDict(pairs) == [t |-> "dict", v |-> pairs]

\* key in d
HasKey(d, key) == \E k \in 1..Len(d.v) : d.v[k][1] = key

\* d[key] for a key that is present
Lookup(d, key) == d.v[CHOOSE k \in 1..Len(d.v) : d.v[k][1] = key][2]

\* d.get(key, default), for a dict d
DictGet(d, key, default) == IF HasKey(d, key) THEN Lookup(d, key) ELSE default

\* d[key] = val: a present key keeps its place, a new key goes last
DictSet(pairs, key, val) ==
    IF \E k \in 1..Len(pairs) : pairs[k][1] = key
    THEN [k \in 1..Len(pairs) |->
            IF pairs[k][1] = key THEN <<key, val>> ELSE pairs[k]]
    ELSE Append(pairs, <<key, val>>)

\* bool(x)
Truthy(x) ==
    CASE x.t = "none" -> FALSE
      [] x.t = "bool" -> x.v
      [] x.t = "int" -> x.v # 0
      [] x.t = "float" -> TRUE
      [] OTHER -> Len(x.v) > 0

\* len(x) is defined (x is a str, list or dict); otherwise TypeError
Sized(x) == x.t \in {"str", "list", "dict"}

\* len(x), for a sized x
PyLen(x) == Len(x.v)

\* the items a for loop (or list.extend) takes from a sized x
Items(x) ==
    CASE x.t = "list" -> x.v
      [] x.t = "str" -> [k \in 1..Len(x.v) |-> PyStr(<<x.v[k]>>)]
      [] x.t = "dict" -> [k \in 1..Len(x.v) |-> PyStr(x.v[k][1])]

-----------------------------------------------------------------------------
(* json.loads (Python's json.decoder), for documents made of objects,      *)
(* arrays, strings without escapes, unsigned integers and the literals.    *)
(* A position is a zero-based index; a scan returns [ok, val, pos], pos    *)
(* the index after the value.                                              *)

JSON_WHITESPACE == {" ", "\t", "\n", "\r"}
CONTROL_CHARS == {"\t", "\n", "\r", "\f"}
DIGITS == {"0", "1", "2", "3", "4", "5", "6", "7", "8", "9"}

\* s[p:p+1]
At(s, p) == IF p >= 0 /\ p < Len(s) THEN s[p + 1] ELSE ""

ScanFail == [ok |-> FALSE, val |-> None, pos |-> 0]
Scanned(val, pos) == [ok |-> TRUE, val |-> val, pos |-> pos]

RECURSIVE SkipWs(_, _)
\* WHITESPACE.match(s, p).end()
SkipWs(s, p) == IF At(s, p) \in JSON_WHITESPACE THEN SkipWs(s, p + 1) ELSE p

\* scanstring: p is the index after the opening quote
ScanString(s, p) ==
    LET q == find(s, <<"\"">>, p, Len(s))
    IN  IF q = -1 THEN ScanFail
        ELSE IF \E k \in p..(q - 1) : At(s, k) \in CONTROL_CHARS THEN ScanFail
        ELSE Scanned(PyStr(Slice(s, p, q)), q + 1)

DigitValue(c) ==
    CASE c = "0" -> 0 [] c = "1" -> 1 [] c = "2" -> 2 [] c = "3" -> 3
      [] c = "4" -> 4 [] c = "5" -> 5 [] c = "6" -> 6 [] c = "7" -> 7
      [] c = "8" -> 8 [] c = "9" -> 9

RECURSIVE ScanDigits(_, _, _)
ScanDigits(s, p, acc) ==
    IF At(s, p) \in DIGITS
    THEN ScanDigits(s, p + 1, 10 * acc + DigitValue(At(s, p)))
    ELSE Scanned(PyInt(acc), p)

\* NUMBER_RE, integer part: 0 | [1-9][0-9]*
ScanNumber(s, p) ==
    IF At(s, p) = "0" THEN Scanned(PyInt(0), p + 1)
    ELSE ScanDigits(s, p, 0)

LIT_null == <<"n", "u", "l", "l">>
LIT_true == <<"t", "r", "u", "e">>
LIT_false == <<"f", "a", "l", "s", "e">>
LIT_NaN == <<"N", "a", "N">>
LIT_Infinity == <<"I", "n", "f", "i", "n", "i", "t", "y">>

RECURSIVE ScanOnce(_, _)
RECURSIVE ScanMembers(_, _, _)
RECURSIVE ScanElements(_, _, _)

\* JSONObject: p is the index after "{"
ScanObject(s, p) ==
    LET q == IF At(s, p) # "\"" /\ At(s, p) \in JSON_WHITESPACE
             THEN SkipWs(s, p) ELSE p
    IN  IF At(s, q) = "}" THEN Scanned(PyDict(<<>>), q + 1)
        ELSE IF At(s, q) # "\"" THEN ScanFail
        ELSE ScanMembers(s, q + 1, <<>>)

\* the member loop after a pair: after is the index of the first
\* non-blank character behind the value
MembersNext(s, after, pairs) ==
    IF At(s, after) = "}" THEN Scanned(PyDict(pairs), after + 1)
    ELSE IF At(s, after) # "," THEN ScanFail
    ELSE IF At(s, SkipWs(s, after + 1)) # "\"" THEN ScanFail
    ELSE ScanMembers(s, SkipWs(s, after + 1) + 1, pairs)

\* the member loop once key and value are scanned
MembersPair(s, key, value, pairs) ==
    IF ~value.ok THEN ScanFail
    ELSE MembersNext(s, SkipWs(s, value.pos), DictSet(pairs, key.val.v, value.val))

\* the member loop once the key is scanned: colon is the index where ":"
\* must stand
MembersColon(s, key, colon, pairs) ==
    IF At(s, colon) # ":" THEN ScanFail
    ELSE MembersPair(s, key, ScanOnce(s, SkipWs(s, colon + 1)), pairs)

\* the member loop once the key is scanned
MembersKey(s, key, pairs) ==
    IF ~key.ok THEN ScanFail
    ELSE MembersColon(s, key,
                      IF At(s, key.pos) # ":" THEN SkipWs(s, key.pos) ELSE key.pos,
                      pairs)

\* the member loop of JSONObject: p is the index after a key's opening quote
ScanMembers(s, p, pairs) == MembersKey(s, ScanString(s, p), pairs)

\* JSONArray: p is the index after "["
ScanArray(s, p) ==
    LET q == IF At(s, p) \in JSON_WHITESPACE THEN SkipWs(s, p) ELSE p
    IN  IF At(s, q) = "]" THEN Scanned(PyList(<<>>), q + 1)
        ELSE ScanElements(s, q, <<>>)

\* the element loop after an element: after is the index of the first
\* non-blank character behind it
ElementsNext(s, after, items) ==
    IF At(s, after) = "]" THEN Scanned(PyList(items), after + 1)
    ELSE IF At(s, after) # "," THEN ScanFail
    ELSE ScanElements(s, SkipWs(s, after + 1), items)

\* the element loop once the element is scanned
ElementsValue(s, value, items) ==
    IF ~value.ok THEN ScanFail
    ELSE ElementsNext(s, SkipWs(s, value.pos), Append(items, value.val))

\* the element loop of JSONArray: p is the index of the next element
ScanElements(s, p, items) == ElementsValue(s, ScanOnce(s, p), items)

\* scan_once: the value that starts at index p
ScanOnce(s, p) ==
    LET c == At(s, p)
    IN  CASE c = "\"" -> ScanString(s, p + 1)
          [] c = "{" -> ScanObject(s, p + 1)
          [] c = "[" -> ScanArray(s, p + 1)
          [] c = "n" /\ MatchAt(s, LIT_null, p) -> Scanned(None, p + 4)
          [] c = "t" /\ MatchAt(s, LIT_true, p) -> Scanned(PyBool(TRUE), p + 4)
          [] c = "f" /\ MatchAt(s, LIT_false, p) -> Scanned(PyBool(FALSE), p + 5)
          [] c = "N" /\ MatchAt(s, LIT_NaN, p) -> Scanned(PyFloat("nan"), p + 3)
          [] c = "I" /\ MatchAt(s, LIT_Infinity, p) -> Scanned(PyFloat("inf"), p + 8)
          [] c \in DIGITS -> ScanNumber(s, p)
          [] OTHER -> ScanFail

\* json.loads(s): [ok, val]; ok = FALSE stands for JSONDecodeError
Loaded(s, r) ==
    IF r.ok /\ SkipWs(s, r.pos) = Len(s)
    THEN [ok |-> TRUE, val |-> r.val]
    ELSE [ok |-> FALSE, val |-> None]

json_loads(s) == Loaded(s, ScanOnce(s, SkipWs(s, 0)))

-----------------------------------------------------------------------------
(* Character classes of the str methods and regular expressions used.      *)

UPPER ==
    {"A", "B", "C", "D", "E", "F", "G", "H", "I", "J", "K", "L", "M",
     "N", "O", "P", "Q", "R", "S", "T", "U", "V", "W", "X", "Y", "Z"}
LOWER ==
    {"a", "b", "c", "d", "e", "f", "g", "h", "i", "j", "k", "l", "m",
     "n", "o", "p", "q", "r", "s", "t", "u", "v", "w", "x", "y", "z"}
LETTERS == UPPER \cup LOWER
WHITESPACE == {" ", "\t", "\n", "\r", "\f"}     \* str.strip(), \s
LINE_BREAKS == {"\n", "\r", "\f"}               \* str.splitlines()
WORD_CHARS == LETTERS \cup DIGITS \cup {"_"}    \* \w
MUSIC_SYMBOL == "~"     \* stands for U+266A (the module is ASCII)

RECURSIVE LStrip(_)
LStrip(s) ==
    IF s # <<>> /\ Head(s) \in WHITESPACE THEN LStrip(Tail(s)) ELSE s

RECURSIVE RStrip(_)
RStrip(s) ==
    IF s # <<>> /\ s[Len(s)] \in WHITESPACE
    THEN RStrip(SubSeq(s, 1, Len(s) - 1)) ELSE s

\* s.strip()
Strip(s) == RStrip(LStrip(s))

RECURSIVE Join(_, _)
\* sep.join(parts)
Join(parts, sep) ==
    IF parts = <<>> THEN <<>>
    ELSE IF Len(parts) = 1 THEN parts[1]
    ELSE parts[1] \o sep \o Join(Tail(parts), sep)

RECURSIVE SplitLinesFrom(_, _, _)
\* the pieces of s between line breaks, from index p on; cur is the piece
\* being read.  "\r\n" yields an empty piece more than Python's single
\* break, which the caller's filter on blank lines removes.
SplitLinesFrom(s, p, cur) ==
    IF p >= Len(s) THEN (IF cur = <<>> THEN <<>> ELSE <<cur>>)
    ELSE IF At(s, p) \in LINE_BREAKS
         THEN <<cur>> \o SplitLinesFrom(s, p + 1, <<>>)
         ELSE SplitLinesFrom(s, p + 1, Append(cur, At(s, p)))

\* s.splitlines()
splitlines(s) == SplitLinesFrom(s, 0, <<>>)

-----------------------------------------------------------------------------
(* pseudo_segment_chunk (formatter.py 105-211).                            *)

SPEAKER_NAME_MAX == 40      \* {1,40} in speaker_pattern

SPEAKER_NAME_CHARS == LETTERS \cup {" ", ".", "'", "-"}

\* the ends q of the non-empty runs ln[p:q] made of characters of class
Runs(ln, p, class) ==
    {q \in (p + 1)..Len(ln) : \A k \in p..(q - 1) : At(ln, k) \in class}

\* \b at index p
WordBoundary(ln, p) == (At(ln, p - 1) \in WORD_CHARS) # (At(ln, p) \in WORD_CHARS)

\* scripture_pattern matches ln starting at index p:
\*   \b([1-3]?\s?[A-Z][a-zA-Z]+)\s+\d+:\d+(?:-\d+)?\b
ScriptureAt(ln, p) ==
    /\ WordBoundary(ln, p)
    /\ \E p1 \in {p} \cup (IF At(ln, p) \in {"1", "2", "3"} THEN {p + 1} ELSE {}) :
       \E p2 \in {p1} \cup (IF At(ln, p1) \in WHITESPACE THEN {p1 + 1} ELSE {}) :
          /\ At(ln, p2) \in UPPER
          /\ \E p3 \in Runs(ln, p2 + 1, LETTERS) :
             \E p4 \in Runs(ln, p3, WHITESPACE) :
             \E p5 \in Runs(ln, p4, DIGITS) :
                /\ At(ln, p5) = ":"
                /\ \E p6 \in Runs(ln, p5 + 1, DIGITS) :
                      \/ WordBoundary(ln, p6)
                      \/ /\ At(ln, p6) = "-"
                         /\ \E p7 \in Runs(ln, p6 + 1, DIGITS) : WordBoundary(ln, p7)

\* scripture_pattern.search(ln) is not None
scripture_search(ln) == \E p \in 0..Len(ln) : ScriptureAt(ln, p)

\* speaker_pattern.match(ln):  ^([A-Z][A-Za-z .'-]{1,40}):\s*(.*)
\* The class excludes ":", so group 1 ends at the first colon of the line.
speaker_match(ln) ==
    LET c == find(ln, <<":">>, 0, Len(ln))
    IN  IF /\ At(ln, 0) \in UPPER
           /\ c >= 2
           /\ c <= SPEAKER_NAME_MAX + 1
           /\ \A k \in 1..(c - 1) : At(ln, k) \in SPEAKER_NAME_CHARS
        THEN [matched |-> TRUE, name |-> Slice(ln, 0, c),
              rest |-> LStrip(SliceFrom(ln, c + 1))]
        ELSE [matched |-> FALSE, name |-> <<>>, rest |-> <<>>]

K_type == <<"t", "y", "p", "e">>
K_speaker == <<"s", "p", "e", "a", "k", "e", "r">>
K_content == <<"c", "o", "n", "t", "e", "n", "t">>
K_emphasis == <<"e", "m", "p", "h", "a", "s", "i", "s">>
K_title == <<"t", "i", "t", "l", "e">>
K_segments == <<"s", "e", "g", "m", "e", "n", "t", "s">>
T_speaker == K_speaker
T_scripture == <<"s", "c", "r", "i", "p", "t", "u", "r", "e">>
T_music == <<"m", "u", "s", "i", "c">>
T_narration == <<"n", "a", "r", "r", "a", "t", "i", "o", "n">>

\* {"type": kind, "speaker": speaker, "content": content, "emphasis": []}
Segment(kind, speaker, content) ==
    PyDict(<< <<K_type, PyStr(kind)>>, <<K_speaker, speaker>>,
              <<K_content, PyStr(content)>>, <<K_emphasis, PyList(<<>>)>> >>)

\* the nonlocal state of the line loop; buffer_type "none" is Python's None
NoBuffer(segments) ==
    [segments |-> segments, buffer |-> <<>>, buffer_type |-> "none",
     buffer_speaker |-> None]

\* lines 119-159
flush_buffer(st) ==
    IF st.buffer = <<>> THEN st
    ELSE LET content == Strip(Join(st.buffer, <<" ">>))
         IN  IF content = <<>> THEN NoBuffer(st.segments)
             ELSE IF st.buffer_type = "speaker"
                  THEN NoBuffer(Append(st.segments,
                                       Segment(T_speaker, st.buffer_speaker, content)))
             ELSE IF st.buffer_type = "scripture"
                  THEN NoBuffer(Append(st.segments, Segment(T_scripture, None, content)))
             ELSE IF st.buffer_type = "music"
                  THEN NoBuffer(Append(st.segments, Segment(T_music, None, content)))
             ELSE NoBuffer(Append(st.segments, Segment(T_narration, None, content)))

\* lines 161-204: the body of the line loop, for one line
SegmentLine(st, ln) ==
    IF \E k \in 1..Len(ln) : ln[k] = MUSIC_SYMBOL
    THEN flush_buffer([flush_buffer(st) EXCEPT !.buffer_type = "music",
                                               !.buffer = Append(@, ln)])
    ELSE IF scripture_search(ln)
    THEN flush_buffer([flush_buffer(st) EXCEPT !.buffer_type = "scripture",
                                               !.buffer = Append(@, ln)])
    ELSE IF speaker_match(ln).matched
    THEN [flush_buffer(st) EXCEPT !.buffer_type = "speaker",
                                  !.buffer_speaker = PyStr(speaker_match(ln).name),
                                  !.buffer = Append(@, speaker_match(ln).rest)]
    ELSE IF st.buffer_type \in {"none", "narration"}
    THEN [st EXCEPT !.buffer_type = "narration", !.buffer = Append(@, ln)]
    ELSE IF st.buffer_type = "speaker"
    THEN [st EXCEPT !.buffer = Append(@, ln)]
    ELSE [flush_buffer(st) EXCEPT !.buffer_type = "narration",
                                  !.buffer = Append(@, ln)]

RECURSIVE SegmentLines(_, _)
SegmentLines(st, lines) ==
    IF lines = <<>> THEN st
    ELSE SegmentLines(SegmentLine(st, Head(lines)), Tail(lines))

\* line 110: the stripped non-blank lines
NonBlankLines(raw_text) ==
    LET stripped == [k \in 1..Len(splitlines(raw_text)) |->
                        Strip(splitlines(raw_text)[k])]
    IN  SelectSeq(stripped, LAMBDA ln : ln # <<>>)

pseudo_segment_chunk_NoFallback(raw_text) ==
    flush_buffer(SegmentLines(NoBuffer(<<>>), NonBlankLines(raw_text))).segments

\* pseudo_segment_chunk(raw_text): the list of segments
pseudo_segment_chunk(raw_text) ==
    LET segments == flush_buffer(SegmentLines(NoBuffer(<<>>),
                                              NonBlankLines(raw_text))).segments
    IN  IF segments = <<>>
        THEN <<Segment(T_narration, None, raw_text)>>
        ELSE segments

-----------------------------------------------------------------------------
(* split_text_into_chunks (formatter.py 74-102).                           *)

SPEAKER_LOOKBACK == 500     \* text.find(':', chunk_end - 500, chunk_end)
SPEAKER_EXTENSION == 50     \* chunk_end = next_speaker + 50

\* lines 87: the nominal boundary
NominalEnd(txt, pos, size) == Min(pos + size, Len(txt))

CutPointStays(txt, pos, size) == pos

CutPointTwoFurther(txt, pos, size) ==
    LET chunk_end == NominalEnd(txt, pos, size)
        next_speaker == find(txt, <<":">>, chunk_end - SPEAKER_LOOKBACK, chunk_end)
    IN  IF next_speaker > pos THEN next_speaker + SPEAKER_EXTENSION + 2 ELSE chunk_end

\* lines 94-97: the cut point of a non-final chunk
CutPoint(txt, pos, size) ==
    LET chunk_end == NominalEnd(txt, pos, size)
        next_speaker == find(txt, <<":">>, chunk_end - SPEAKER_LOOKBACK, chunk_end)
    IN  IF next_speaker > pos THEN next_speaker + SPEAKER_EXTENSION ELSE chunk_end

NextPosSkipsOne(chunk_end) == chunk_end + 1

\* line 100: current_pos = chunk_end
NextPos(chunk_end) == chunk_end

\* lines 79-83: the early return, or the loop's initial state
SplitEntry ==
    /\ pc = "split_entry"
    /\ IF Len(text) <= max_chunk_size
       THEN /\ chunks' = <<text>>
            /\ pc' = "split_return"
       ELSE /\ chunks' = <<>>
            /\ pc' = "split_loop"
    /\ current_pos' = 0
    /\ UNCHANGED <<text, max_chunk_size, caller, env, i, all_segments, title,
                   tpm_window_start, tokens_used_in_window, clock, attempts,
                   backoff, full_response, data, hist,
                   arg_raw_text, ret_segments, emphasis_list, para, requests, format_semaphore>>

\* lines 85-100: one iteration of the while loop (or its exit)
SplitLoop ==
    /\ pc = "split_loop"
    /\ IF current_pos < Len(text)
       THEN IF NominalEnd(text, current_pos, max_chunk_size) >= Len(text)
            THEN /\ chunks' = Append(chunks, SliceFrom(text, current_pos))
                 /\ pc' = "split_return"
                 /\ UNCHANGED current_pos
            ELSE LET chunk_end == CutPoint(text, current_pos, max_chunk_size)
                 IN  /\ chunks' = Append(chunks, Slice(text, current_pos, chunk_end))
                     /\ current_pos' = NextPos(chunk_end)
                     /\ pc' = "split_loop"
       ELSE /\ pc' = "split_return"
            /\ UNCHANGED <<chunks, current_pos>>
    /\ UNCHANGED <<text, max_chunk_size, caller, env, i, all_segments, title,
                   tpm_window_start, tokens_used_in_window, clock, attempts,
                   backoff, full_response, data, hist,
                   arg_raw_text, ret_segments, emphasis_list, para, requests, format_semaphore>>

\* line 102 (and line 80): return chunks, to a direct caller
SplitReturn ==
    /\ pc = "split_return"
    /\ caller = "direct"
    /\ pc' = "returned"
    /\ UNCHANGED <<text, max_chunk_size, chunks, current_pos, caller, env, i,
                   all_segments, title, tpm_window_start, tokens_used_in_window,
                   clock, attempts, backoff, full_response, data, hist,
                   arg_raw_text, ret_segments, emphasis_list, para, requests, format_semaphore>>

-----------------------------------------------------------------------------
(* format_transcript_with_claude (formatter.py 213-542): constants.        *)

MAX_TOKENS_PER_CALL == 1200
TPM_BUDGET == 3500
WINDOW_SECONDS == 60
MAX_ATTEMPTS == 3
INITIAL_BACKOFF == 2
BACKOFF_FACTOR == 2
TICKS_PER_SECOND == 200     \* the clock counts 1/200 s: (hash(chunk) % 100) / 200.0
JITTER_BASE_TICKS == 100    \* 0.5 s
JITTER_MODULUS == 100

\* "World Impact Transcript"
DEFAULT_TITLE ==
    PyStr(<<"W", "o", "r", "l", "d", " ", "I", "m", "p", "a", "c", "t", " ", "T", "r", "a", "n", "s", "c", "r", "i", "p", "t">>)

BACKTICK == "^"     \* stands for U+0060, which a TLA+ string cannot hold
FENCE == <<BACKTICK, BACKTICK, BACKTICK>>
FENCE_JSON == FENCE \o <<"j", "s", "o", "n">>

RECURSIVE split(_, _)
\* s.split(sep)
split(s, sep) ==
    LET p == find(s, sep, 0, Len(s))
    IN  IF p = -1 THEN <<s>>
        ELSE <<Slice(s, 0, p)>> \o split(SliceFrom(s, p + Len(sep)), sep)

\* lines 375-378: the text inside a markdown fence
StripFences(response) ==
    IF Contains(response, FENCE_JSON)
    THEN split(split(response, FENCE_JSON)[2], FENCE)[1]
    ELSE IF Contains(response, FENCE)
    THEN split(response, FENCE)[2]
    ELSE response

TitleFromAnyChunk(idx, chunk_data, old_title) ==
    IF Truthy(DictGet(chunk_data, K_title, None))
    THEN Lookup(chunk_data, K_title) ELSE old_title

\* lines 386-387 (415-416, 422-423): store the title from the first chunk only
TitleFrom(idx, chunk_data, old_title) ==
    IF idx = 0 /\ Truthy(DictGet(chunk_data, K_title, None))
    THEN Lookup(chunk_data, K_title) ELSE old_title

\* lines 383-391 (414-417, 421-424): what the code takes from a parsed document.
\* exc: an exception other than JSONDecodeError is raised (chunk_data.get on a
\* non-dict: AttributeError; len() of an unsized "segments": TypeError), before
\* the title is stored or anything is appended.
UseParsed(idx, chunk_data, old_title) ==
    IF chunk_data.t # "dict"
    THEN [exc |-> TRUE, title |-> old_title, parsed_segments |-> PyList(<<>>)]
    ELSE IF ~Sized(DictGet(chunk_data, K_segments, PyList(<<>>)))
    THEN [exc |-> TRUE, title |-> old_title, parsed_segments |-> PyList(<<>>)]
    ELSE [exc |-> FALSE,
          title |-> TitleFrom(idx, chunk_data, old_title),
          parsed_segments |-> DictGet(chunk_data, K_segments, PyList(<<>>))]

RECURSIVE SumContentLen(_)
\* sum(len(seg.get("content", "")) for seg in parsed_segments)
SumContentLen(items) ==
    IF items = <<>> THEN 0
    ELSE PyLen(DictGet(Head(items), K_content, PyStr(<<>>))) + SumContentLen(Tail(items))

\* the sum at line 395 raises (a segment that is no dict, a content without len)
CoverageRaises(parsed_segments) ==
    \E k \in 1..Len(Items(parsed_segments)) :
        \/ Items(parsed_segments)[k].t # "dict"
        \/ ~Sized(DictGet(Items(parsed_segments)[k], K_content, PyStr(<<>>)))

CoverageLowOrEqual(chunk, parsed_segments) ==
    /\ ~CoverageRaises(parsed_segments)
    /\ 10 * SumContentLen(Items(parsed_segments)) <= 7 * Len(chunk)

\* lines 394-400: combined_len < 0.7 * len(chunk), and no exception.
\* For integers s, n >= 0 the float comparison s < 0.7 * n agrees with
\* 10 * s < 7 * n (0.7 * n is within 1e-12 of 7n/10, which is an integer
\* or at least 0.1 away from one; when 7n/10 is an integer the product is
\* rounded to it exactly for every n up to 200000).
CoverageLow(chunk, parsed_segments) ==
    /\ ~CoverageRaises(parsed_segments)
    /\ 10 * SumContentLen(Items(parsed_segments)) < 7 * Len(chunk)

\* line 398: {"type": "narration", "content": chunk, "emphasis": []}
SafetySegment(chunk) ==
    PyDict(<< <<K_type, PyStr(T_narration)>>, <<K_content, PyStr(chunk)>>,
              <<K_emphasis, PyList(<<>>)>> >>)

\* what handling one chunk's response does: the chunk's state (section 4.6 of
\* the design: PARSED, FALLBACK; NONE when the code appends nothing; RAISED
\* when an exception leaves the chunk loop), the title, the segments appended
Outcome(state, new_title, appended) ==
    [state |-> state, title |-> new_title, appended |-> appended]

\* lines 427-428, 431-432
Fallback(chunk, old_title) ==
    Outcome("FALLBACK", old_title, pseudo_segment_chunk(chunk))

\* lines 413-417, 420-424: the repaired text parsed; any other exception
\* goes to the handler at line 425
UseRepaired(chunk, use, old_title) ==
    IF use.exc THEN Fallback(chunk, old_title)
    ELSE Outcome("PARSED", use.title, Items(use.parsed_segments))

\* lines 418-420: the second repair, cutting at the last closing brace; a
\* JSONDecodeError here goes to the handler at line 425
SecondRepair(idx, chunk, second, old_title) ==
    IF ~second.ok THEN Fallback(chunk, old_title)
    ELSE UseRepaired(chunk, UseParsed(idx, second.val, old_title), old_title)

\* lines 411-424: the first repair, cutting at the second-to-last closing brace
FirstRepair(idx, chunk, body, first, last_brace, old_title) ==
    IF first.ok
    THEN UseRepaired(chunk, UseParsed(idx, first.val, old_title), old_title)
    ELSE SecondRepair(idx, chunk,
                      json_loads(Slice(body, 0, last_brace + 1) \o <<"]", "}">>),
                      old_title)

\* line 410: if last_brace > 0 and second_last_brace > 0; otherwise nothing
\* is done for the chunk
RepairAt(idx, chunk, body, last_brace, second_last_brace, old_title) ==
    IF last_brace > 0 /\ second_last_brace > 0
    THEN FirstRepair(idx, chunk, body,
                     json_loads(Slice(body, 0, second_last_brace + 1) \o <<"]", "}">>),
                     last_brace, old_title)
    ELSE Outcome("NONE", old_title, <<>>)

\* line 408
SecondLastBrace(body, last_brace) ==
    IF last_brace > 0 THEN rfind(body, <<"}">>, 0, last_brace) ELSE -1

\* lines 407-408
RepairFrom(idx, chunk, body, last_brace, old_title) ==
    RepairAt(idx, chunk, body, last_brace, SecondLastBrace(body, last_brace), old_title)

\* lines 402-428: except json.JSONDecodeError
Repair(idx, chunk, body, old_title) ==
    RepairFrom(idx, chunk, body, rfind(body, <<"}">>, 0, Len(body)), old_title)

\* lines 392-400: the segments appended after a direct parse
DirectSegments(chunk, parsed_segments) ==
    Items(parsed_segments)
    \o (IF CoverageLow(chunk, parsed_segments)
        THEN <<SafetySegment(chunk)>> ELSE <<>>)

\* lines 383-400, once the document is read
DirectUse(chunk, use, old_title) ==
    IF use.exc THEN Outcome("RAISED", old_title, <<>>)
    ELSE Outcome("PARSED", use.title, DirectSegments(chunk, use.parsed_segments))

\* lines 381-400: json.loads succeeded
Direct(idx, chunk, chunk_data, old_title) ==
    DirectUse(chunk, UseParsed(idx, chunk_data, old_title), old_title)

\* lines 380-428: the fence-stripped text parsed, directly or after repair
ProcessParsed(idx, chunk, body, parsed, old_title) ==
    IF parsed.ok THEN Direct(idx, chunk, parsed.val, old_title)
    ELSE Repair(idx, chunk, body, old_title)

\* lines 374-428
ProcessBody(idx, chunk, body, old_title) ==
    ProcessParsed(idx, chunk, body, json_loads(body), old_title)

\* lines 372-432: if full_response: ... else: ...
ProcessResponse(idx, chunk, response, old_title) ==
    IF ~Truthy(response) THEN Fallback(chunk, old_title)
    ELSE ProcessBody(idx, chunk, StripFences(response.v), old_title)

ExtendFront(segments, more) == more \o segments

\* all_segments.extend(more)
Extend(segments, more) == segments \o more

-----------------------------------------------------------------------------
(* format_transcript_with_claude: the steps.  hist[k] records, for the     *)
(* k-th chunk dispatched, the calls made, the exceptions they raised, the  *)
(* backoff sleeps (seconds), the response text, the chunk's state and the  *)
(* length of all_segments when the chunk was dispatched.  No step reads    *)
(* hist.                                                                   *)

\* an exception of client.messages.create, by what str(e) contains:
\* rate_limit: "rate_limit" or "429"; transient: "Connection error",
\* "api_error" or "500"
ApiError(rate_limit, transient) == [rate_limit |-> rate_limit, transient |-> transient]

ScaledMaxChunkSize == 4     \* stands for the default max_chunk_size of 3000

\* the chunk of the current iteration
chunk == chunks[i + 1]

\* lines 217-221, 272: get_claude_client(), get_template_path(), then the
\* call split_text_into_chunks(text)
Setup ==
    /\ pc = "start"
    /\ IF env.api_key /\ env.template
       THEN /\ pc' = "split_entry"
            /\ max_chunk_size' = ScaledMaxChunkSize
       ELSE /\ pc' = "raised"
            /\ UNCHANGED max_chunk_size
    /\ UNCHANGED <<text, chunks, current_pos, caller, env, i, all_segments, title,
                   tpm_window_start, tokens_used_in_window, clock, attempts,
                   backoff, full_response, data, hist,
                   arg_raw_text, ret_segments, emphasis_list, para, requests, format_semaphore>>

\* lines 272-284: split_text_into_chunks returns to format_transcript_with_claude
EnterLoop ==
    /\ pc = "split_return"
    /\ caller = "format_transcript_with_claude"
    /\ all_segments' = <<>>
    /\ title' = None
    /\ tpm_window_start' = clock
    /\ tokens_used_in_window' = 0
    /\ i' = 0
    /\ pc' = "pace"
    /\ UNCHANGED <<text, max_chunk_size, chunks, current_pos, caller, env, clock,
                   attempts, backoff, full_response, data, hist,
                   arg_raw_text, ret_segments, emphasis_list, para, requests, format_semaphore>>

PacedWithoutSleep(now, window_start, tokens) ==
    IF now - window_start >= WINDOW_SECONDS * TICKS_PER_SECOND
    THEN [slept |-> 0, window_start |-> now, tokens |-> 0]
    ELSE [slept |-> 0, window_start |-> window_start, tokens |-> tokens]

\* lines 290-301: the window and counter after the pacing check, and the
\* ticks slept
Paced(now, window_start, tokens) ==
    LET elapsed == now - window_start
        expired == elapsed >= WINDOW_SECONDS * TICKS_PER_SECOND
        start1 == IF expired THEN now ELSE window_start
        tokens1 == IF expired THEN 0 ELSE tokens
        sleep_for == IF expired THEN 0 ELSE WINDOW_SECONDS * TICKS_PER_SECOND - elapsed
    IN  IF tokens1 + MAX_TOKENS_PER_CALL > TPM_BUDGET /\ sleep_for > 0
        THEN [slept |-> sleep_for, window_start |-> now + sleep_for, tokens |-> 0]
        ELSE [slept |-> 0, window_start |-> start1, tokens |-> tokens1]

PaceWithCountersKept(p, h) ==
    /\ tpm_window_start' = p.window_start
    /\ tokens_used_in_window' = p.tokens
    /\ clock' = clock + p.slept + JITTER_BASE_TICKS + (h % JITTER_MODULUS)
    /\ hist' = Append(hist, [calls |-> 0, errors |-> <<>>, waits |-> <<>>,
                             response |-> None, usage |-> None,
                             state |-> "GENERATING",
                             first |-> Len(all_segments)])
    /\ pc' = "call"
    /\ UNCHANGED <<text, max_chunk_size, chunks, current_pos, caller, env, i,
                   all_segments, title, full_response, data, attempts, backoff,
                   arg_raw_text, ret_segments, emphasis_list, para, requests,
                   format_semaphore>>

\* lines 284-310, once the pacing check is made: jitter, attempts = 0,
\* backoff = 2
PaceWith(p, h) ==
    /\ tpm_window_start' = p.window_start
    /\ tokens_used_in_window' = p.tokens
    /\ clock' = clock + p.slept + JITTER_BASE_TICKS + (h % JITTER_MODULUS)
    /\ attempts' = 0
    /\ backoff' = INITIAL_BACKOFF
    /\ hist' = Append(hist, [calls |-> 0, errors |-> <<>>, waits |-> <<>>,
                             response |-> None, usage |-> None,
                             state |-> "GENERATING",
                             first |-> Len(all_segments)])
    /\ pc' = "call"
    /\ UNCHANGED <<text, max_chunk_size, chunks, current_pos, caller, env, i,
                   all_segments, title, full_response, data,
                   arg_raw_text, ret_segments, emphasis_list, para, requests, format_semaphore>>

\* lines 284-310: the head of an iteration
Pace ==
    /\ pc = "pace"
    /\ \E h \in env.hashes :
           PaceWith(Paced(clock, tpm_window_start, tokens_used_in_window), h)

TokensCountedCeiling(output_tokens) ==
    IF output_tokens.t = "int" THEN output_tokens.v ELSE MAX_TOKENS_PER_CALL

\* lines 329-335: the tokens counted for a response
TokensCounted(output_tokens) ==
    IF output_tokens.t = "int" THEN output_tokens.v ELSE MAX_TOKENS_PER_CALL \div 2

\* lines 314-337: the call returns a response
CallReturns(response_text, output_tokens, duration) ==
    /\ attempts' = attempts + 1
    /\ tokens_used_in_window' = tokens_used_in_window + TokensCounted(output_tokens)
    /\ full_response' = response_text
    /\ clock' = clock + duration
    /\ hist' = [hist EXCEPT ![i + 1].calls = @ + 1,
                            ![i + 1].response = response_text,
                            ![i + 1].usage = output_tokens]
    /\ pc' = "handle"
    /\ UNCHANGED <<text, max_chunk_size, chunks, current_pos, caller, env, i,
                   all_segments, title, tpm_window_start, backoff, data,
                   arg_raw_text, ret_segments, emphasis_list, para, requests, format_semaphore>>

GivesUpAfter(n) == n > MAX_ATTEMPTS

\* lines 342, 355: if attempts >= 3
GivesUp(n) == n >= MAX_ATTEMPTS

NextBackoffSame(b) == b

\* lines 351, 363: backoff *= 2
NextBackoff(b) == b * BACKOFF_FACTOR

RetryableAny(e) == TRUE

\* lines 341, 354: the exceptions the code retries
Retryable(e) == e.rate_limit \/ e.transient

\* lines 338-370: the call raises e
CallRaises(e, duration) ==
    /\ attempts' = attempts + 1
    /\ IF Retryable(e) /\ ~GivesUp(attempts + 1)
       THEN /\ clock' = clock + duration + backoff * TICKS_PER_SECOND
            /\ backoff' = NextBackoff(backoff)
            /\ hist' = [hist EXCEPT ![i + 1].calls = @ + 1,
                                    ![i + 1].errors = Append(@, e),
                                    ![i + 1].waits = Append(@, backoff)]
            /\ pc' = "call"
            /\ UNCHANGED <<all_segments, full_response>>
       ELSE /\ all_segments' = Extend(all_segments, pseudo_segment_chunk(chunk))
            /\ full_response' = None
            /\ clock' = clock + duration
            /\ hist' = [hist EXCEPT ![i + 1].calls = @ + 1,
                                    ![i + 1].errors = Append(@, e),
                                    ![i + 1].state = "FALLBACK"]
            /\ pc' = "handle"
            /\ UNCHANGED backoff
    /\ UNCHANGED <<text, max_chunk_size, chunks, current_pos, caller, env, i, title,
                   tpm_window_start, tokens_used_in_window, data,
                   arg_raw_text, ret_segments, emphasis_list, para, requests, format_semaphore>>

\* lines 311-370: one pass of the while True loop
CallAttempt ==
    /\ pc = "call"
    /\ \E duration \in env.durations :
        \/ \E response_text \in env.responses, output_tokens \in env.usages :
               CallReturns(response_text, output_tokens, duration)
        \/ \E e \in env.errors : CallRaises(e, duration)

\* the effect of handling the chunk's response, and the for loop's step
Handled(o) ==
    /\ IF o.state = "RAISED"
       THEN /\ pc' = "raised"
            /\ hist' = [hist EXCEPT ![i + 1].state = "RAISED"]
            /\ UNCHANGED <<i, all_segments, title>>
       ELSE /\ all_segments' = Extend(all_segments, o.appended)
            /\ title' = o.title
            /\ hist' = [hist EXCEPT ![i + 1].state = o.state]
            /\ i' = i + 1
            /\ pc' = IF i + 1 < Len(chunks) THEN "pace" ELSE "combine"
    /\ UNCHANGED <<text, max_chunk_size, chunks, current_pos, caller, env,
                   tpm_window_start, tokens_used_in_window, clock, attempts,
                   backoff, full_response, data,
                   arg_raw_text, ret_segments, emphasis_list, para, requests, format_semaphore>>

\* lines 372-432
HandleResponse ==
    /\ pc = "handle"
    /\ Handled(ProcessResponse(i, chunk, full_response, title))

\* lines 435-438
Combine ==
    /\ pc = "combine"
    /\ data' = [title |-> IF Truthy(title) THEN title ELSE DEFAULT_TITLE,
                segments |-> all_segments]
    /\ pc' = "render"
    /\ UNCHANGED <<text, max_chunk_size, chunks, current_pos, caller, env, i,
                   all_segments, title, tpm_window_start, tokens_used_in_window,
                   clock, attempts, backoff, full_response, hist,
                   arg_raw_text, ret_segments, emphasis_list, para, requests, format_semaphore>>

\* lines 456-461: the renderer reads each segment with segment.get, which
\* raises AttributeError on a segment that is no dict.  (The runs that
\* add_formatted_text adds to a paragraph are modelled with SpecEmphasis.)
Render ==
    /\ pc = "render"
    /\ pc' = IF \A k \in 1..Len(data.segments) : data.segments[k].t = "dict"
             THEN "done" ELSE "raised"
    /\ UNCHANGED <<text, max_chunk_size, chunks, current_pos, caller, env, i,
                   all_segments, title, tpm_window_start, tokens_used_in_window,
                   clock, attempts, backoff, full_response, data, hist,
                   arg_raw_text, ret_segments, emphasis_list, para, requests, format_semaphore>>

\* format_transcript, lines 664-671, with format_basic_transcript, lines
\* 628-661: an exception of format_transcript_with_claude is caught and the
\* basic document is produced, unless the template cannot be found
FormatTranscriptExcept ==
    /\ pc = "raised"
    /\ pc' = IF env.template THEN "basic_done" ELSE "failed"
    /\ UNCHANGED <<text, max_chunk_size, chunks, current_pos, caller, env, i,
                   all_segments, title, tpm_window_start, tokens_used_in_window,
                   clock, attempts, backoff, full_response, data, hist,
                   arg_raw_text, ret_segments, emphasis_list, para, requests, format_semaphore>>

-----------------------------------------------------------------------------
(* Inputs of the chunker on its own.                                       *)

MaxTextLen == 6             \* short texts: every text over {a, :} up to this length
MaxSmallChunk == 3          \* chunk sizes tried on the short texts
LongTextLen == 640          \* long texts: longer than the 500-character lookback
LongColons == {0, 45, 130, 260, 395, 500, 519, 610}
LongChunkSizes == {60, 270, 520}

RECURSIVE TextsOfLen(_, _)
TextsOfLen(alphabet, n) ==
    IF n = 0 THEN {<<>>}
    ELSE {Append(t, c) : t \in TextsOfLen(alphabet, n - 1), c \in alphabet}

ShortTexts == UNION {TextsOfLen({"a", ":"}, n) : n \in 0..MaxTextLen}

\* a text of length n whose colons are at the zero-based indices in colons
LongText(n, colons) == [k \in 1..n |-> IF (k - 1) \in colons THEN ":" ELSE "a"]

LongTexts == {LongText(LongTextLen, cs) : cs \in SUBSET LongColons}

\* no environment: the chunker calls nothing
ENV_None ==
    [api_key |-> FALSE, template |-> FALSE, responses |-> {}, usages |-> {},
     errors |-> {}, durations |-> {}, hashes |-> {}]

\* the variables of format_transcript_with_claude, before it runs
PipelineIdle ==
    /\ env = ENV_None
    /\ i = 0
    /\ all_segments = <<>>
    /\ title = None
    /\ tpm_window_start = 0
    /\ tokens_used_in_window = 0
    /\ clock = 0
    /\ attempts = 0
    /\ backoff = 0
    /\ full_response = None
    /\ data = None
    /\ hist = <<>>

InitChunk ==
    /\ \/ text \in ShortTexts /\ max_chunk_size \in 1..MaxSmallChunk
       \/ text \in LongTexts /\ max_chunk_size \in LongChunkSizes
    /\ chunks = <<>>
    /\ current_pos = 0
    /\ pc = "split_entry"
    /\ caller = "direct"
    /\ PipelineIdle
    /\ arg_raw_text = <<>>
    /\ ret_segments = <<>>
    /\ emphasis_list = <<>>
    /\ para = <<>>
    /\ requests = <<>>
    /\ format_semaphore = 1

NextChunk == SplitEntry \/ SplitLoop \/ SplitReturn

SpecChunk == InitChunk /\ [][NextChunk]_vars

\* the function runs on its own thread of control: as long as a step of it is
\* possible, a step is taken
SpecChunkFair == SpecChunk /\ WF_vars(NextChunk)

-----------------------------------------------------------------------------
(* pseudo_segment_chunk called on its own.                                 *)

MaxSegmentLines == 3        \* raw texts of up to this many lines

\* the lines the raw texts are made of: a speaker line with nothing after
\* the colon, a speaker line, a music line, a scripture reference, a plain
\* line with a leading blank, a blank line, a music line that also matches
\* the speaker and the scripture pattern
SegmentLinePool ==
    { <<"A", "l", ":", " ", "~", " ", "P", "s", " ", "1", ":", "2">>,
      <<"A", "l", ":">>,
      <<"A", "l", ":", " ", "h", "i">>,
      <<"~", " ", "l", "a">>,
      <<"P", "s", " ", "1", ":", "2">>,
      <<" ", "o", "k">>,
      <<" ">> }

\* the raw texts of n lines, joined by line feeds
RECURSIVE SegmentTextsOf(_)
SegmentTextsOf(n) ==
    IF n = 0 THEN {<<>>}
    ELSE IF n = 1 THEN SegmentLinePool
    ELSE {t \o <<"\n">> \o ln : t \in SegmentTextsOf(n - 1), ln \in SegmentLinePool}

InitSegment ==
    /\ arg_raw_text \in UNION {SegmentTextsOf(n) : n \in 0..MaxSegmentLines}
    /\ ret_segments = <<>>
    /\ emphasis_list = <<>>
    /\ para = <<>>
    /\ requests = <<>>
    /\ format_semaphore = 1
    /\ text = <<>>
    /\ max_chunk_size = 0
    /\ chunks = <<>>
    /\ current_pos = 0
    /\ pc = "segment_entry"
    /\ caller = "direct"
    /\ PipelineIdle

\* lines 105-211: the call pseudo_segment_chunk(raw_text) and its return value
SegmentCall ==
    /\ pc = "segment_entry"
    /\ ret_segments' = pseudo_segment_chunk(arg_raw_text)
    /\ pc' = "segment_returned"
    /\ UNCHANGED <<text, max_chunk_size, chunks, current_pos, caller, env, i,
                   all_segments, title, tpm_window_start, tokens_used_in_window,
                   clock, attempts, backoff, full_response, data, hist,
                   arg_raw_text, emphasis_list, para, requests, format_semaphore>>

SpecSegment == InitSegment /\ [][SegmentCall]_vars

-----------------------------------------------------------------------------
(* add_formatted_text (formatter.py 545-625), called on its own.  The       *)
(* paragraph is the sequence of the runs added to it.                       *)

K_text == <<"t", "e", "x", "t">>
K_style == <<"s", "t", "y", "l", "e">>
S_bold == <<"b", "o", "l", "d">>
S_italic == <<"i", "t", "a", "l", "i", "c">>
S_italic_quote == S_italic \o <<"_", "q", "u", "o", "t", "e">>

\* a run: what para.add_run got, run.bold and run.italic
Run(run_text, bold, italic) == [text |-> run_text, bold |-> bold, italic |-> italic]

\* lines 551-555, 573-577, 596-600, 621-625: a run without emphasis
PlainRun(run_text) == Run(run_text, FALSE, FALSE)

\* lines 603-615: the run of an emphasised span
EmphRun(emph_text, style) ==
    IF style = PyStr(S_bold) THEN Run(emph_text, TRUE, FALSE)
    ELSE IF style \in { PyStr(S_italic), PyStr(S_italic_quote) }
    THEN Run(emph_text, FALSE, TRUE)
    ELSE Run(emph_text, FALSE, FALSE)

RECURSIVE finditer(_, _, _)
\* line 566: re.finditer(re.escape(emph_text), text) from index from on: the
\* matches from left to right, each search starting where the match before
\* ended (one character further after an empty match)
finditer(emph_text, txt, from) ==
    IF from > Len(txt) \/ find(txt, emph_text, from, Len(txt)) = -1 THEN <<>>
    ELSE << [start |-> find(txt, emph_text, from, Len(txt)),
             end |-> find(txt, emph_text, from, Len(txt)) + Len(emph_text)] >>
         \o finditer(emph_text, txt,
                     find(txt, emph_text, from, Len(txt))
                     + (IF emph_text = <<>> THEN 1 ELSE Len(emph_text)))

RECURSIVE AddMatches(_, _, _, _)
\* lines 566-570: the matches of one entry, those at a position seen before
\* left out
AddMatches(emph_positions, matches, emph_text, style) ==
    IF matches = <<>> THEN emph_positions
    ELSE AddMatches(
            IF \E k \in 1..Len(emph_positions) :
                  /\ emph_positions[k].start = Head(matches).start
                  /\ emph_positions[k].end = Head(matches).end
            THEN emph_positions
            ELSE Append(emph_positions,
                        [start |-> Head(matches).start, end |-> Head(matches).end,
                         emph_text |-> emph_text, style |-> style]),
            Tail(matches), emph_text, style)

RECURSIVE EmphPositions(_, _, _)
\* lines 559-570
EmphPositions(emph_positions, entries, txt) ==
    IF entries = <<>> THEN emph_positions
    ELSE EmphPositions(
            AddMatches(emph_positions,
                       finditer(DictGet(Head(entries), K_text, PyStr(<<>>)).v, txt, 0),
                       DictGet(Head(entries), K_text, PyStr(<<>>)).v,
                       DictGet(Head(entries), K_style, PyStr(<<>>))),
            Tail(entries), txt)

\* the order of the tuples (start, end, emph_text, style); no two entries of
\* emph_positions have the same start and end
PositionBefore(a, b) ==
    a.start < b.start \/ (a.start = b.start /\ a.end <= b.end)

RECURSIVE SortPositions(_)
\* line 581: emph_positions.sort()
SortPositions(emph_positions) ==
    IF emph_positions = <<>> THEN <<>>
    ELSE LET first == CHOOSE k \in 1..Len(emph_positions) :
                          \A j \in 1..Len(emph_positions) :
                              PositionBefore(emph_positions[k], emph_positions[j])
         IN  <<emph_positions[first]>>
             \o SortPositions(SubSeq(emph_positions, 1, first - 1)
                              \o SubSeq(emph_positions, first + 1, Len(emph_positions)))

\* lines 585-616: one iteration of the loop over the sorted positions;
\* st holds the runs added so far and last_pos
ApplyPosition(st, txt, position) ==
    IF position.start < st.last_pos THEN st
    ELSE [runs |-> st.runs
                   \o (IF position.start > st.last_pos
                       THEN <<PlainRun(Slice(txt, st.last_pos, position.start))>>
                       ELSE <<>>)
                   \o <<EmphRun(position.emph_text, position.style)>>,
          last_pos |-> position.end]

RECURSIVE ApplyPositions(_, _, _)
ApplyPositions(st, txt, positions) ==
    IF positions = <<>> THEN st
    ELSE ApplyPositions(ApplyPosition(st, txt, Head(positions)), txt, Tail(positions))

\* lines 618-625: the text after the last emphasised span
WithRemaining(st, txt) ==
    st.runs \o (IF st.last_pos < Len(txt)
                THEN <<PlainRun(SliceFrom(txt, st.last_pos))>> ELSE <<>>)

\* add_formatted_text(text, emphasis_list, para): the runs added to para
add_formatted_text(txt, entries) ==
    IF entries = <<>> \/ EmphPositions(<<>>, entries, txt) = <<>>
    THEN <<PlainRun(txt)>>
    ELSE WithRemaining(
            ApplyPositions([runs |-> <<>>, last_pos |-> 0], txt,
                           SortPositions(EmphPositions(<<>>, entries, txt))),
            txt)

MaxContentLen == 4          \* contents of up to 4 characters
MaxEmphasisEntries == 2     \* emphasis lists of up to 2 entries

RECURSIVE ContentsOfLen(_)
\* the contents of n characters
ContentsOfLen(n) ==
    IF n = 0 THEN {<<>>}
    ELSE { <<c>> \o rest : c \in {"a", "b"}, rest \in ContentsOfLen(n - 1) }

\* the emphasis entries: the texts "", "a", "aa" and "ba", bold or italic
EmphasisEntries ==
    { PyDict(<< <<K_text, PyStr(t)>>, <<K_style, PyStr(s)>> >>) :
        t \in { <<>>, <<"a">>, <<"a", "a">>, <<"b", "a">> },
        s \in { S_bold, S_italic } }

RECURSIVE EmphasisListsOfLen(_)
EmphasisListsOfLen(n) ==
    IF n = 0 THEN {<<>>}
    ELSE { <<e>> \o rest : e \in EmphasisEntries, rest \in EmphasisListsOfLen(n - 1) }

InitEmphasis ==
    /\ text \in UNION { ContentsOfLen(n) : n \in 0..MaxContentLen }
    /\ emphasis_list \in UNION { EmphasisListsOfLen(n) : n \in 0..MaxEmphasisEntries }
    /\ para = <<>>
    /\ arg_raw_text = <<>>
    /\ ret_segments = <<>>
    /\ requests = <<>>
    /\ format_semaphore = 1
    /\ max_chunk_size = 0
    /\ chunks = <<>>
    /\ current_pos = 0
    /\ pc = "emphasis_entry"
    /\ caller = "direct"
    /\ PipelineIdle

\* lines 545-625: the call add_formatted_text(text, emphasis_list, para)
AddFormattedTextCall ==
    /\ pc = "emphasis_entry"
    /\ para' = para \o add_formatted_text(text, emphasis_list)
    /\ pc' = "emphasis_returned"
    /\ UNCHANGED <<text, max_chunk_size, chunks, current_pos, caller, env, i,
                   all_segments, title, tpm_window_start, tokens_used_in_window,
                   clock, attempts, backoff, full_response, data, hist,
                   arg_raw_text, ret_segments, emphasis_list, requests,
                   format_semaphore>>

SpecEmphasis == InitEmphasis /\ [][AddFormattedTextCall]_vars

-----------------------------------------------------------------------------
(* Inputs of format_transcript_with_claude: transcripts, and what the      *)
(* generation service may answer.                                          *)

TEXT_Empty == <<>>

\* Al: hi
TEXT_Speaker ==
    <<
        "A", "l", ":", " ", "h", "i" >>

\* abcdefg
TEXT_TwoChunks ==
    <<
        "a", "b", "c", "d", "e", "f", "g" >>

\* <music> la\nBo: x
TEXT_MusicSpeaker ==
    <<
        "~", " ", "l", "a", "\n", "B", "o", ":", " ", "x" >>

\* abcdefghijk
TEXT_ThreeChunks ==
    <<
        "a", "b", "c", "d", "e", "f", "g", "h", "i", "j", "k" >>

\* {"title":"T","segments":[{"type":"speaker","speaker":"Al","content":"hi"}]}
R_TitleOneSegment ==
    PyStr(<<
        "{", "\"", "t", "i", "t", "l", "e", "\"", ":", "\"", "T", "\"", ",",
        "\"", "s", "e", "g", "m", "e", "n", "t", "s", "\"", ":", "[", "{",
        "\"", "t", "y", "p", "e", "\"", ":", "\"", "s", "p", "e", "a", "k",
        "e", "r", "\"", ",", "\"", "s", "p", "e", "a", "k", "e", "r", "\"",
        ":", "\"", "A", "l", "\"", ",", "\"", "c", "o", "n", "t", "e", "n",
        "t", "\"", ":", "\"", "h", "i", "\"", "}", "]", "}" >>)

\* {"segments":[{"content":"abcd"},{"type":"music","content":"<music>"}]}
R_TwoSegments ==
    PyStr(<<
        "{", "\"", "s", "e", "g", "m", "e", "n", "t", "s", "\"", ":", "[",
        "{", "\"", "c", "o", "n", "t", "e", "n", "t", "\"", ":", "\"", "a",
        "b", "c", "d", "\"", "}", ",", "{", "\"", "t", "y", "p", "e", "\"",
        ":", "\"", "m", "u", "s", "i", "c", "\"", ",", "\"", "c", "o", "n",
        "t", "e", "n", "t", "\"", ":", "\"", "~", "\"", "}", "]", "}" >>)

\* {"title":"U","segments":[]}
R_NoSegments ==
    PyStr(<<
        "{", "\"", "t", "i", "t", "l", "e", "\"", ":", "\"", "U", "\"", ",",
        "\"", "s", "e", "g", "m", "e", "n", "t", "s", "\"", ":", "[", "]",
        "}" >>)

\* ```json\n{"title":"V","segments":[{"content":"x"}]}\n```
R_Fenced ==
    PyStr(<<
        "^", "^", "^", "j", "s", "o", "n", "\n", "{", "\"", "t", "i", "t",
        "l", "e", "\"", ":", "\"", "V", "\"", ",", "\"", "s", "e", "g", "m",
        "e", "n", "t", "s", "\"", ":", "[", "{", "\"", "c", "o", "n", "t",
        "e", "n", "t", "\"", ":", "\"", "x", "\"", "}", "]", "}", "\n", "^",
        "^", "^" >>)

\* {"title":"W","segments":[{"content":"ab"},{"content":"cd"},{"cont
R_TruncatedInThird ==
    PyStr(<<
        "{", "\"", "t", "i", "t", "l", "e", "\"", ":", "\"", "W", "\"", ",",
        "\"", "s", "e", "g", "m", "e", "n", "t", "s", "\"", ":", "[", "{",
        "\"", "c", "o", "n", "t", "e", "n", "t", "\"", ":", "\"", "a", "b",
        "\"", "}", ",", "{", "\"", "c", "o", "n", "t", "e", "n", "t", "\"",
        ":", "\"", "c", "d", "\"", "}", ",", "{", "\"", "c", "o", "n", "t" >>)

\* {"title":"T","segments":[{"content":"ab"}
R_TruncatedOneBrace ==
    PyStr(<<
        "{", "\"", "t", "i", "t", "l", "e", "\"", ":", "\"", "T", "\"", ",",
        "\"", "s", "e", "g", "m", "e", "n", "t", "s", "\"", ":", "[", "{",
        "\"", "c", "o", "n", "t", "e", "n", "t", "\"", ":", "\"", "a", "b",
        "\"", "}" >>)

\* Sorry
R_PlainText ==
    PyStr(<<
        "S", "o", "r", "r", "y" >>)

\* {"segments":[{"content":"ab","emphasis":[{}]}
R_SecondRepair ==
    PyStr(<<
        "{", "\"", "s", "e", "g", "m", "e", "n", "t", "s", "\"", ":", "[",
        "{", "\"", "c", "o", "n", "t", "e", "n", "t", "\"", ":", "\"", "a",
        "b", "\"", ",", "\"", "e", "m", "p", "h", "a", "s", "i", "s", "\"",
        ":", "[", "{", "}", "]", "}" >>)

\* {"a":1}}
R_Unrepairable ==
    PyStr(<<
        "{", "\"", "a", "\"", ":", "1", "}", "}" >>)

\* {"segments":5,"a":[{},{}
R_RepairedNotSized ==
    PyStr(<<
        "{", "\"", "s", "e", "g", "m", "e", "n", "t", "s", "\"", ":", "5",
        ",", "\"", "a", "\"", ":", "[", "{", "}", ",", "{", "}" >>)

\* []
R_NotAnObject ==
    PyStr(<<
        "[", "]" >>)

\* {"segments":5}
R_SegmentsNotSized ==
    PyStr(<<
        "{", "\"", "s", "e", "g", "m", "e", "n", "t", "s", "\"", ":", "5",
        "}" >>)

\* {"segments":"ab"}
R_SegmentsString ==
    PyStr(<<
        "{", "\"", "s", "e", "g", "m", "e", "n", "t", "s", "\"", ":", "\"",
        "a", "b", "\"", "}" >>)

\* the empty text (response.content is empty)
R_Empty == PyStr(<<>>)

E_RATE_LIMIT == ApiError(TRUE, FALSE)
E_CONNECTION == ApiError(FALSE, TRUE)
E_OTHER == ApiError(FALSE, FALSE)

ALL_RESPONSES ==
    {R_TitleOneSegment, R_TwoSegments, R_NoSegments, R_Fenced,
     R_TruncatedInThird, R_TruncatedOneBrace, R_PlainText, R_SecondRepair,
     R_Unrepairable, R_RepairedNotSized, R_NotAnObject, R_SegmentsNotSized,
     R_SegmentsString, R_Empty}

\* the service answers anything (well-formed, fenced, truncated, off-schema
\* and plain-text responses) and fails in every way
ENV_Full ==
    [api_key |-> TRUE, template |-> TRUE,
     responses |-> ALL_RESPONSES,
     usages |-> {None},
     errors |-> {E_RATE_LIMIT, E_CONNECTION, E_OTHER},
     durations |-> {0},
     hashes |-> {0}]

\* every response, and only the failure that is not retried
ENV_Answers == [ENV_Full EXCEPT !.errors = {E_OTHER}]

\* every failure, and two responses
ENV_Failures == [ENV_Full EXCEPT !.responses = {R_TitleOneSegment, R_PlainText}]

\* two responses, one retryable and one other failure, reported and
\* unreported token counts
ENV_Lean ==
    [api_key |-> TRUE, template |-> TRUE,
     responses |-> {R_Fenced, R_PlainText},
     usages |-> {None, PyInt(MAX_TOKENS_PER_CALL)},
     errors |-> {E_RATE_LIMIT, E_OTHER},
     durations |-> {0},
     hashes |-> {0}]

ENV_NoApiKey == [ENV_Lean EXCEPT !.api_key = FALSE]
ENV_NoTemplate == [ENV_Lean EXCEPT !.template = FALSE]

Scenarios ==
    ({TEXT_Empty, TEXT_Speaker} \X {ENV_Full})
    \cup ({TEXT_TwoChunks, TEXT_MusicSpeaker} \X {ENV_Answers})
    \cup ({TEXT_MusicSpeaker} \X {ENV_Failures})
    \cup ({TEXT_ThreeChunks} \X {ENV_Lean})
    \cup ({TEXT_Speaker} \X {ENV_NoApiKey, ENV_NoTemplate})

Init ==
    /\ \E sc \in Scenarios : text = sc[1] /\ env = sc[2]
    /\ max_chunk_size = 0
    /\ chunks = <<>>
    /\ current_pos = 0
    /\ pc = "start"
    /\ caller = "format_transcript_with_claude"
    /\ i = 0
    /\ all_segments = <<>>
    /\ title = None
    /\ tpm_window_start = 0
    /\ tokens_used_in_window = 0
    /\ clock = 0
    /\ attempts = 0
    /\ backoff = 0
    /\ full_response = None
    /\ data = None
    /\ hist = <<>>
    /\ arg_raw_text = <<>>
    /\ ret_segments = <<>>
    /\ emphasis_list = <<>>
    /\ para = <<>>
    /\ requests = <<>>
    /\ format_semaphore = 1

Next ==
    \/ Setup
    \/ SplitEntry
    \/ SplitLoop
    \/ EnterLoop
    \/ Pace
    \/ CallAttempt
    \/ HandleResponse
    \/ Combine
    \/ Render
    \/ FormatTranscriptExcept

Spec == Init /\ [][Next]_vars

-----------------------------------------------------------------------------
(* The /format endpoint (main.py 14-45).                                   *)
(*                                                                         *)
(* A request is suspended only at `await file.read()`.  The semaphore is   *)
(* free whenever a request reaches `async with`, so acquire() returns      *)
(* without suspending, and format_transcript is a plain call: the event    *)
(* loop runs no other request from the acquire to the release.             *)

NumRequests == 3            \* concurrent requests

\* what the service answers to the requests' calls
ENV_Service ==
    [api_key |-> TRUE, template |-> TRUE,
     responses |-> {R_Fenced, R_NotAnObject},
     usages |-> {PyInt(MAX_TOKENS_PER_CALL)},
     errors |-> {E_OTHER},
     durations |-> {0},
     hashes |-> {0}]

\* the same service on a host where the template file cannot be found:
\* format_transcript raises
ENV_ServiceNoTemplate == [ENV_Service EXCEPT !.template = FALSE]

InitService ==
    /\ requests = [r \in 1..NumRequests |-> "read"]
    /\ format_semaphore = 1
    /\ env \in {ENV_Service, ENV_ServiceNoTemplate}
    /\ text = <<>>
    /\ max_chunk_size = 0
    /\ chunks = <<>>
    /\ current_pos = 0
    /\ pc = "idle"
    /\ caller = "format_transcript_with_claude"
    /\ i = 0
    /\ all_segments = <<>>
    /\ title = None
    /\ tpm_window_start = 0
    /\ tokens_used_in_window = 0
    /\ clock = 0
    /\ attempts = 0
    /\ backoff = 0
    /\ full_response = None
    /\ data = None
    /\ hist = <<>>
    /\ arg_raw_text = <<>>
    /\ ret_segments = <<>>
    /\ emphasis_list = <<>>
    /\ para = <<>>

\* lines 33-34: the upload is read; decoding it may raise UnicodeDecodeError
ReadFile ==
    \E r \in DOMAIN requests :
        /\ requests[r] = "read"
        /\ \E next \in {"acquire", "error"} : requests' = [requests EXCEPT ![r] = next]
        /\ UNCHANGED <<text, max_chunk_size, chunks, current_pos, pc, caller, env, i,
                       all_segments, title, tpm_window_start, tokens_used_in_window,
                       clock, attempts, backoff, full_response, data, hist,
                       arg_raw_text, ret_segments, emphasis_list, para, format_semaphore>>

AcquiredValueKept(value) == value

\* asyncio.Semaphore.acquire on a free semaphore: self._value -= 1
AcquiredValue(value) == value - 1

\* lines 37-38: the request resumes on the free event loop, enters
\* `async with format_semaphore` and calls format_transcript(text).  The
\* locals of format_transcript_with_claude are those of a new call;
\* tpm_window_start and tokens_used_in_window keep the values the call
\* before left until lines 281-282 assign them (no step reads them before).
Acquire ==
    \E r \in DOMAIN requests :
        /\ requests[r] = "acquire"
        /\ \A q \in DOMAIN requests : requests[q] # "formatting"
        /\ format_semaphore > 0
        /\ format_semaphore' = AcquiredValue(format_semaphore)
        /\ requests' = [requests EXCEPT ![r] = "formatting"]
        /\ text' = TEXT_Speaker
        /\ max_chunk_size' = 0
        /\ chunks' = <<>>
        /\ current_pos' = 0
        /\ pc' = "start"
        /\ i' = 0
        /\ all_segments' = <<>>
        /\ title' = None
        /\ attempts' = 0
        /\ backoff' = 0
        /\ full_response' = None
        /\ data' = None
        /\ hist' = <<>>
        /\ UNCHANGED <<caller, env, tpm_window_start, tokens_used_in_window, clock,
                       arg_raw_text, ret_segments, emphasis_list, para>>

ReleaseUnlessRaised ==
    \E r \in DOMAIN requests :
        /\ requests[r] = "formatting"
        /\ pc \in {"done", "basic_done", "failed"}
        /\ format_semaphore' = IF pc = "failed" THEN format_semaphore
                                ELSE format_semaphore + 1
        /\ requests' = [requests EXCEPT ![r] = IF pc = "failed" THEN "failed"
                                                ELSE "responded"]
        /\ pc' = "idle"
        /\ UNCHANGED <<text, max_chunk_size, chunks, current_pos, caller, env, i,
                       all_segments, title, tpm_window_start, tokens_used_in_window,
                       clock, attempts, backoff, full_response, data, hist,
                       arg_raw_text, ret_segments, emphasis_list, para>>

\* lines 37-45: format_transcript returned or raised; __aexit__ releases the
\* semaphore either way, then the response is returned or the exception
\* leaves the handler
Release ==
    \E r \in DOMAIN requests :
        /\ requests[r] = "formatting"
        /\ pc \in {"done", "basic_done", "failed"}
        /\ format_semaphore' = format_semaphore + 1
        /\ requests' = [requests EXCEPT ![r] = IF pc = "failed" THEN "failed"
                                                ELSE "responded"]
        /\ pc' = "idle"
        /\ UNCHANGED <<text, max_chunk_size, chunks, current_pos, caller, env, i,
                       all_segments, title, tpm_window_start, tokens_used_in_window,
                       clock, attempts, backoff, full_response, data, hist,
                       arg_raw_text, ret_segments, emphasis_list, para>>

NextService ==
    \/ ReadFile
    \/ Acquire
    \/ Release
    \/ Next

SpecService == InitService /\ [][NextService]_vars

\* the event loop runs a task that is ready, and format_transcript, once
\* called, runs on: a step that stays possible is taken.  HandleResponse is
\* possible exactly when pc = "handle" and leaves that position, so its weak
\* fairness is written as []<>(pc # "handle").
SpecServiceFair ==
    /\ SpecService
    /\ WF_vars(ReadFile \/ Acquire \/ Release)
    /\ WF_vars(Setup \/ SplitEntry \/ SplitLoop \/ EnterLoop \/ Pace \/ CallAttempt
                  \/ Combine \/ Render \/ FormatTranscriptExcept)
    /\ []<>(pc # "handle")

-----------------------------------------------------------------------------
(* Reading the history.                                                    *)

\* the k-th chunk (k from 1) has been handled: the loop has moved past it
ChunkHandled(k) == k <= Len(hist) /\ k <= i

\* the segments appended to all_segments while the k-th chunk was processed
ChunkSegments(k) ==
    SubSeq(all_segments, hist[k].first + 1,
           IF k < Len(hist) THEN hist[k + 1].first ELSE Len(all_segments))

\* every call for the k-th chunk raised: the generation ended in failure
GenerationFailed(k) == hist[k].calls >= 1 /\ hist[k].calls = Len(hist[k].errors)

\* the fence-stripped response text of the k-th chunk
BodyOf(k) == StripFences(hist[k].response.v)

\* the k-th chunk got a non-empty response text
HasResponse(k) == hist[k].response.t = "str" /\ hist[k].response.v # <<>>

\* the text the repair builds when it cuts body behind the closing brace at
\* index brace (the empty prefix when there is no such brace)
RepairText(body, brace) == Slice(body, 0, brace + 1) \o <<"]", "}">>

\* body parses neither as it is nor after either repair
Unparseable(body) ==
    /\ ~json_loads(body).ok
    /\ ~json_loads(RepairText(body, rfind(body, <<"}">>, 0, Len(body)))).ok
    /\ ~json_loads(RepairText(body,
            SecondLastBrace(body, rfind(body, <<"}">>, 0, Len(body))))).ok

\* a document that follows the schema as far as the coverage guard reads it:
\* an object whose "segments" is a list of objects with string contents
FollowsSchema(doc) ==
    /\ doc.t = "dict"
    /\ DictGet(doc, K_segments, PyList(<<>>)).t = "list"
    /\ \A n \in 1..Len(DictGet(doc, K_segments, PyList(<<>>)).v) :
          /\ DictGet(doc, K_segments, PyList(<<>>)).v[n].t = "dict"
          /\ DictGet(DictGet(doc, K_segments, PyList(<<>>)).v[n],
                     K_content, PyStr(<<>>)).t = "str"

\* the k-th chunk's response parsed directly into schema-conforming segments
ParsedDirectly(k) ==
    /\ HasResponse(k)
    /\ json_loads(BodyOf(k)).ok
    /\ FollowsSchema(json_loads(BodyOf(k)).val)

\* S: the segments parsed directly from the k-th chunk's response
DirectSegmentsOf(k) == DictGet(json_loads(BodyOf(k)).val, K_segments, PyList(<<>>)).v

\* what handling the k-th chunk appends, from the chunk and its recorded
\* generation result alone: the fallback of the except branch when the
\* generation failed, then what lines 372-432 append
ExpectedSegments(k) ==
    (IF GenerationFailed(k) THEN pseudo_segment_chunk(chunks[k]) ELSE <<>>)
    \o ProcessResponse(k - 1, chunks[k], hist[k].response, None).appended

RECURSIVE SumSeq(_)
SumSeq(q) == IF q = <<>> THEN 0 ELSE Head(q) + SumSeq(Tail(q))

-----------------------------------------------------------------------------
\* C1: every chunk the loop has handled contributed at least one segment, so
\* at the end of the chunk loop len(all_segments) >= number of chunks.
C1_EveryChunkContributes ==
    /\ \A k \in 1..Len(hist) : ChunkHandled(k) => Len(ChunkSegments(k)) >= 1
    /\ (pc = "combine") => Len(all_segments) >= Len(chunks)

\* C2: a chunk whose response parses neither directly nor after either
\* repair gets exactly pseudo_segment_chunk(chunk) appended.
C2_UnparseableGetsFallback ==
    \A k \in 1..Len(hist) :
        (ChunkHandled(k) /\ HasResponse(k) /\ Unparseable(BodyOf(k)))
            => ChunkSegments(k) = pseudo_segment_chunk(chunks[k])

\* C3: a chunk whose generation ended in failure gets exactly
\* pseudo_segment_chunk(chunk) appended, once.
C3_FailureFallbackOnce ==
    \A k \in 1..Len(hist) :
        (ChunkHandled(k) /\ GenerationFailed(k))
            => ChunkSegments(k) = pseudo_segment_chunk(chunks[k])

\* C4: no response text makes the chunk loop abort: no chunk ends with an
\* exception leaving the loop.
C4_NoResponseAbortsLoop ==
    \A k \in 1..Len(hist) : hist[k].state # "RAISED"

\* C6: after a direct parse into segments S the chunk's segments are S
\* followed by one narration segment holding the raw chunk when
\* 10 * sum(len(content)) < 7 * len(chunk), and exactly S otherwise.
C6_CoverageGuard ==
    \A k \in 1..Len(hist) :
        (ChunkHandled(k) /\ ParsedDirectly(k))
            => ChunkSegments(k) =
                  DirectSegmentsOf(k)
                  \o (IF 10 * SumContentLen(DirectSegmentsOf(k)) < 7 * Len(chunks[k])
                      THEN <<SafetySegment(chunks[k])>> ELSE <<>>)

\* C6 witness: in one run a directly parsed chunk got the safety segment and
\* another directly parsed chunk did not.
C6_Witness ==
    /\ pc = "done"
    /\ \E k \in 1..Len(hist) :
          /\ ParsedDirectly(k)
          /\ DirectSegmentsOf(k) # <<>>
          /\ ChunkSegments(k) = Append(DirectSegmentsOf(k), SafetySegment(chunks[k]))
    /\ \E k \in 1..Len(hist) :
          /\ ParsedDirectly(k)
          /\ DirectSegmentsOf(k) # <<>>
          /\ ChunkSegments(k) = DirectSegmentsOf(k)

\* C7: the final segment sequence is the concatenation, in chunk order, of
\* the chunks' segment lists, each in its own order, whichever chunks used
\* the model's output and whichever the fallback.
C7_SegmentsInChunkOrder ==
    /\ \A k \in 1..Len(hist) :
          ChunkHandled(k) => ChunkSegments(k) = ExpectedSegments(k)
    /\ (data # None) =>
          data.segments = Concat([k \in 1..Len(chunks) |-> ExpectedSegments(k)])

\* C7 witness: three chunks, the first from the model's output, a later one
\* from the fallback, each with segments of its own.
C7_Witness ==
    /\ pc = "done"
    /\ Len(chunks) = 3
    /\ hist[1].state = "PARSED"
    /\ \E k \in 2..3 : GenerationFailed(k)
    /\ \A k \in 1..3 : ChunkSegments(k) # <<>>
    /\ ChunkSegments(1) # ChunkSegments(2)

\* the title the first chunk's response yields (None when it yields none)
FirstChunkTitle == ProcessResponse(0, chunks[1], hist[1].response, None).title

\* C8: the title is the one parsed from the first chunk's response when
\* there is one and the default otherwise; no later chunk sets it.
C8_TitleFromFirstChunk ==
    /\ (Len(hist) >= 1 /\ ChunkHandled(1)) => title = FirstChunkTitle
    /\ (Len(hist) >= 1 /\ ChunkHandled(1) /\ ParsedDirectly(1)) =>
          title = IF Truthy(DictGet(json_loads(BodyOf(1)).val, K_title, None))
                  THEN DictGet(json_loads(BodyOf(1)).val, K_title, None)
                  ELSE None
    /\ (Len(hist) >= 1 /\ ChunkHandled(1) /\ ~HasResponse(1)) => title = None
    /\ (data # None) =>
          data.title = IF Truthy(FirstChunkTitle) THEN FirstChunkTitle
                       ELSE DEFAULT_TITLE

\* C8 witness: the first chunk yields no title, a later chunk's response
\* carries one, and the result has the default title.
C8_Witness ==
    /\ pc = "done"
    /\ Len(chunks) >= 2
    /\ ~Truthy(FirstChunkTitle)
    /\ HasResponse(2)
    /\ json_loads(BodyOf(2)).ok
    /\ Truthy(DictGet(json_loads(BodyOf(2)).val, K_title, None))
    /\ data.title = DEFAULT_TITLE

\* C9: never more than 3 calls for a chunk; a chunk whose every call failed
\* with a retryable error got exactly 3 calls and went to the fallback.
C9_ThreeAttempts ==
    \A k \in 1..Len(hist) :
        /\ hist[k].calls <= 3
        /\ (/\ hist[k].state # "GENERATING"
            /\ GenerationFailed(k)
            /\ \A n \in 1..Len(hist[k].errors) : Retryable(hist[k].errors[n]))
              => /\ hist[k].calls = 3
                 /\ hist[k].state = "FALLBACK"
                 /\ pseudo_segment_chunk(chunks[k]) =
                        SubSeq(all_segments, hist[k].first + 1,
                               hist[k].first + Len(pseudo_segment_chunk(chunks[k])))

\* C9 witness: a chunk failed three times with retryable errors of both kinds.
C9_Witness ==
    \E k \in 1..Len(hist) :
        /\ ChunkHandled(k)
        /\ hist[k].calls = 3
        /\ Len(hist[k].errors) = 3
        /\ \A n \in 1..3 : Retryable(hist[k].errors[n])
        /\ \E n, m \in 1..3 : hist[k].errors[n] # hist[k].errors[m]

\* C10: the backoff waits of a chunk are 2 after the first failed attempt
\* and 4 after the second, none after the third: 6 in all for three failures.
C10_BackoffTwoThenFour ==
    \A k \in 1..Len(hist) :
        /\ Len(hist[k].waits) <= 2
        /\ Len(hist[k].waits) >= 1 => hist[k].waits[1] = 2
        /\ Len(hist[k].waits) >= 2 => hist[k].waits[2] = 4
        /\ Len(hist[k].errors) = 3 =>
              /\ hist[k].waits = <<2, 4>>
              /\ SumSeq(hist[k].waits) = 6

\* C10 witness: a chunk failed three times and slept 2 then 4.
C10_Witness ==
    \E k \in 1..Len(hist) :
        /\ ChunkHandled(k)
        /\ Len(hist[k].errors) = 3
        /\ hist[k].waits = <<2, 4>>

\* C11: a call failure that is neither a rate-limit nor a transient error is
\* the chunk's last call, is followed by no backoff sleep, and the chunk goes
\* to the fallback without an exception leaving the loop.
C11_NonRetryableGoesToFallback ==
    \A k \in 1..Len(hist) :
        \A n \in 1..Len(hist[k].errors) :
            (~hist[k].errors[n].rate_limit /\ ~hist[k].errors[n].transient)
                => /\ n = Len(hist[k].errors)
                   /\ hist[k].calls = n
                   /\ Len(hist[k].waits) = n - 1
                   /\ hist[k].state = "FALLBACK"
                   /\ hist[k].response = None

\* C11 witness: a chunk whose second call failed with a non-retryable error
\* after one retried failure, handled by the fallback.
C11_Witness ==
    \E k \in 1..Len(hist) :
        /\ ChunkHandled(k)
        /\ hist[k].calls = 2
        /\ Len(hist[k].errors) = 2
        /\ hist[k].errors[1].rate_limit
        /\ ~hist[k].errors[2].rate_limit /\ ~hist[k].errors[2].transient
        /\ hist[k].waits = <<2>>
        /\ hist[k].state = "FALLBACK"

\* C12: format_transcript never raises to its caller: whenever
\* format_transcript_with_claude raises, the basic document is returned.
C12_FormatTranscriptNeverRaises == pc # "failed"

\* the line is classified by the line loop as a speaker line
IsSpeakerLine(ln) ==
    /\ ~Contains(ln, <<MUSIC_SYMBOL>>)
    /\ ~scripture_search(ln)
    /\ speaker_match(ln).matched

\* the segment represents the line: a speaker line by its name as the
\* segment's speaker and its text after the colon in the content, any other
\* line by its stripped text in the content
Represents(seg, ln) ==
    IF IsSpeakerLine(ln)
    THEN /\ DictGet(seg, K_speaker, None) = PyStr(speaker_match(ln).name)
         /\ Contains(DictGet(seg, K_content, PyStr(<<>>)).v, speaker_match(ln).rest)
    ELSE Contains(DictGet(seg, K_content, PyStr(<<>>)).v, ln)

\* the lines are represented in order by segs[from..]: each line by the
\* segment of the line before it or a later one
RECURSIVE RepresentedInOrder(_, _, _)
RepresentedInOrder(lines, segs, from) ==
    IF lines = <<>> THEN TRUE
    ELSE /\ \E k \in from..Len(segs) : Represents(segs[k], Head(lines))
         /\ RepresentedInOrder(Tail(lines), segs,
                SetMin({k \in from..Len(segs) : Represents(segs[k], Head(lines))}))

\* C13: every non-blank line of the input is represented in the output of
\* pseudo_segment_chunk, in input order; no line is dropped.
C13_EveryLineRepresented ==
    (pc = "segment_returned")
        => RepresentedInOrder(NonBlankLines(arg_raw_text), ret_segments, 1)

\* C14: pseudo_segment_chunk returns a non-empty list; when the line loop
\* produced no segment, exactly one narration segment whose content is the
\* raw text unchanged.
C14_NeverEmpty ==
    (pc = "segment_returned") =>
        /\ ret_segments # <<>>
        /\ (flush_buffer(SegmentLines(NoBuffer(<<>>),
                                      NonBlankLines(arg_raw_text))).segments = <<>>)
              => ret_segments = <<Segment(T_narration, None, arg_raw_text)>>

\* C14 witness: an input with a non-blank line and surrounding blanks from
\* which the line loop produced nothing, returned as one narration segment
\* holding the raw text.
C14_Witness ==
    /\ pc = "segment_returned"
    /\ NonBlankLines(arg_raw_text) # <<>>
    /\ Strip(arg_raw_text) # arg_raw_text
    /\ ret_segments = <<Segment(T_narration, None, arg_raw_text)>>

\* C15: no chunk returned by split_text_into_chunks is the empty string,
\* for every text (the empty text included) and every max_chunk_size >= 1.
C15_NoEmptyChunk ==
    (pc = "returned") => \A k \in 1..Len(chunks) : chunks[k] # <<>>

\* C16: every chunk returned by split_text_into_chunks has length at most
\* max_chunk_size + 50.
C16_ChunkLengthBound ==
    \A k \in 1..Len(chunks) : Len(chunks[k]) <= max_chunk_size + 50

\* C16 witness: a returned chunk that the extension to the speaker boundary
\* made 49 characters longer than max_chunk_size.
C16_Witness ==
    /\ pc = "returned"
    /\ \E k \in 1..Len(chunks) : Len(chunks[k]) = max_chunk_size + 49

\* C17: every call is issued with tokens_used_in_window + 1200 <= 3500; the
\* counter never exceeds 3500 while the service reports at most 1200 tokens
\* per call; and a pacing check that finds tokens_used_in_window + 1200 >
\* 3500 inside the window sleeps to the end of the 60-second window and
\* resets the counter to 0 and the window start to the time after the sleep.
C17_PacingKeepsBudget ==
    /\ [](pc = "call" => tokens_used_in_window + 1200 <= 3500)
    /\ []((\A u \in env.usages : u.t = "int" => u.v <= 1200)
             => tokens_used_in_window <= 3500)
    /\ [][(/\ pc = "pace"
           /\ clock - tpm_window_start < 60 * TICKS_PER_SECOND
           /\ tokens_used_in_window + 1200 > 3500)
             => /\ tokens_used_in_window' = 0
                /\ tpm_window_start' = tpm_window_start + 60 * TICKS_PER_SECOND
                /\ clock' >= tpm_window_start']_vars

\* C17 witness: the third chunk's call is about to be issued after the
\* pacing check slept: 2400 tokens were counted for the first two chunks.
C17_Witness ==
    /\ pc = "call"
    /\ i = 2
    /\ hist[1].usage = PyInt(1200) /\ hist[2].usage = PyInt(1200)
    /\ tokens_used_in_window = 0
    /\ tpm_window_start >= 60 * TICKS_PER_SECOND
    /\ clock >= tpm_window_start

\* C18: a call that returns a response adds to tokens_used_in_window the
\* integer output-token count the service reported, or 600 when it reported
\* none; a call attempt that fails leaves the counter unchanged.
C18_TokensCounted ==
    [][(pc = "call") =>
          IF hist'[i + 1].response # None
          THEN tokens_used_in_window' = tokens_used_in_window +
                  (IF hist'[i + 1].usage.t = "int" THEN hist'[i + 1].usage.v ELSE 600)
          ELSE tokens_used_in_window' = tokens_used_in_window]_vars

\* C18 witness: 1200 reported for the first chunk; the second chunk's call
\* failed once, then returned without a count: 1800 in the counter.
C18_Witness ==
    /\ pc = "handle"
    /\ i = 1
    /\ hist[1].usage = PyInt(1200)
    /\ hist[2].errors # <<>>
    /\ hist[2].response # None
    /\ hist[2].usage = None
    /\ tokens_used_in_window = 1800

\* C19: the token counter and the window start are shared by all runs: a
\* run that enters its chunk loop inside the window in which an earlier run
\* counted tokens goes on with that counter and that window start.
C19_CountersSharedByRuns ==
    [][(/\ pc = "split_return" /\ pc' = "pace"
        /\ tokens_used_in_window > 0
        /\ clock - tpm_window_start < 60 * TICKS_PER_SECOND)
          => /\ tokens_used_in_window' = tokens_used_in_window
             /\ tpm_window_start' = tpm_window_start]_vars

\* C20: at most one request is inside format_transcript at any time, a
\* request inside it holds the single slot of format_semaphore, and a call
\* of format_transcript in progress belongs to such a request.
C20_OneFormattingAtATime ==
    /\ Cardinality({r \in DOMAIN requests : requests[r] = "formatting"}) <= 1
    /\ \A r \in DOMAIN requests : requests[r] = "formatting" => format_semaphore = 0
    /\ (requests # <<>> /\ pc # "idle")
          => \E r \in DOMAIN requests : requests[r] = "formatting"

\* C20 witness: one request is in the middle of format_transcript while a
\* second has read its upload and a third has been answered.
C20_Witness ==
    /\ pc = "call"
    /\ \E r, q, p \in DOMAIN requests :
          /\ requests[r] = "formatting"
          /\ requests[q] = "acquire"
          /\ requests[p] = "responded"

-----------------------------------------------------------------------------
\* the closing tokens a truncation removes: the closing brace of the object,
\* with or without the closing bracket of the segments array
ClosingTokens == { <<"}">>, <<"]", "}">> }

\* body is a valid response object with at least one segment whose final
\* closing tokens were removed
TruncatedValid(body, closing) ==
    /\ ~json_loads(body).ok
    /\ json_loads(body \o closing).ok
    /\ FollowsSchema(json_loads(body \o closing).val)
    /\ DictGet(json_loads(body \o closing).val, K_segments, PyList(<<>>)).v # <<>>

\* C21: when the response is a valid response object with at least one
\* segment whose final closing tokens were removed, the repair yields a parsed
\* result with a non-empty segment list and the title of the original object.
C21_RepairKeepsTruncated ==
    \A k \in 1..Len(hist) : \A closing \in ClosingTokens :
        (ChunkHandled(k) /\ HasResponse(k) /\ TruncatedValid(BodyOf(k), closing)) =>
            /\ hist[k].state = "PARSED"
            /\ ChunkSegments(k) # <<>>
            /\ (k = 1 /\ Truthy(DictGet(json_loads(BodyOf(k) \o closing).val, K_title, None))) =>
                  title = DictGet(json_loads(BodyOf(k) \o closing).val, K_title, None)

-----------------------------------------------------------------------------
\* the terminal states of a chunk
TerminalStates == { "PARSED", "FALLBACK" }

\* C22: every chunk leaves the state GENERATING for exactly one terminal
\* state, PARSED or FALLBACK, after at most three calls and before the next
\* chunk's first call; a chunk is dispatched once, and the chunk loop is left
\* only after the last chunk reached its terminal state.
C22_EveryChunkTerminal ==
    /\ Len(hist) <= Len(chunks)
    /\ \A k \in 1..Len(hist) :
          /\ hist[k].calls <= MAX_ATTEMPTS
          /\ hist[k].state \in TerminalStates \cup { "GENERATING" }
          /\ (k < Len(hist)) => hist[k].state \in TerminalStates
    /\ (pc \notin { "pace", "call", "handle" } /\ Len(hist) >= 1) =>
          /\ Len(hist) = Len(chunks)
          /\ \A k \in 1..Len(hist) : hist[k].state \in TerminalStates

-----------------------------------------------------------------------------
\* the k-th chunk's response did not parse directly and a repair of it did
RepairedChunk(k) ==
    /\ HasResponse(k)
    /\ ~json_loads(BodyOf(k)).ok
    /\ hist[k].state = "PARSED"

\* the segments are objects with string contents, as the coverage sum reads
\* them
SegmentsFollowSchema(segs) ==
    \A n \in 1..Len(segs) :
        /\ segs[n].t = "dict"
        /\ DictGet(segs[n], K_content, PyStr(<<>>)).t = "str"

\* C23: the coverage guard applies after a repair as after a direct parse:
\* when the contents of the repaired segments sum to less than 70% of
\* len(chunk), the chunk's segments end with a narration segment holding the
\* raw chunk.
C23_CoverageGuardAfterRepair ==
    \A k \in 1..Len(hist) :
        (ChunkHandled(k) /\ RepairedChunk(k) /\ SegmentsFollowSchema(ChunkSegments(k)))
            => \/ 10 * SumContentLen(ChunkSegments(k)) >= 7 * Len(chunks[k])
               \/ /\ ChunkSegments(k) # <<>>
                  /\ ChunkSegments(k)[Len(ChunkSegments(k))] = SafetySegment(chunks[k])

-----------------------------------------------------------------------------
RECURSIVE ChunkStart(_)
\* the index in text where the k-th chunk starts
ChunkStart(k) == IF k = 1 THEN 0 ELSE ChunkStart(k - 1) + Len(chunks[k - 1])

\* the colons in the 500 characters before the boundary b at an index
\* greater than the chunk's start
ColonsBefore(b, start) ==
    { p \in Max(b - SPEAKER_LOOKBACK, 0)..(b - 1) : text[p + 1] = ":" /\ p > start }

\* C24: a non-final chunk that starts at current_pos ends 50 characters
\* after the last colon in the 500 characters before the boundary
\* b = current_pos + max_chunk_size (the colon nearest to b) when a colon lies
\* there at an index greater than current_pos, and at b otherwise.
C24_CutAfterNearestColon ==
    (pc = "returned") =>
        \A k \in 1..(Len(chunks) - 1) :
            Len(chunks[k]) =
                Min(IF ColonsBefore(ChunkStart(k) + max_chunk_size, ChunkStart(k)) # {}
                    THEN SetMax(ColonsBefore(ChunkStart(k) + max_chunk_size,
                                             ChunkStart(k))) + SPEAKER_EXTENSION
                    ELSE ChunkStart(k) + max_chunk_size,
                    Len(text)) - ChunkStart(k)

-----------------------------------------------------------------------------
\* C25: every iteration of the loop of split_text_into_chunks cuts beyond
\* current_pos (the chunk it appends is not empty, and current_pos, when the
\* loop goes on, has strictly increased), and the function returns.
C25_ProgressAndTermination ==
    /\ [][(pc = "split_loop" /\ pc' = "split_loop") => current_pos' > current_pos]_vars
    /\ [][(pc = "split_loop" /\ chunks' # chunks) =>
              /\ Len(chunks') = Len(chunks) + 1
              /\ chunks'[Len(chunks')] # <<>>]_vars
    /\ <>(pc = "returned")

\* C25 witness: the function returned after the loop cut the text into at
\* least three chunks.
C25_Witness ==
    /\ pc = "returned"
    /\ Len(chunks) >= 3
    /\ current_pos > 0

-----------------------------------------------------------------------------
\* the line is classified by the line loop as a plain line
IsPlainLine(ln) ==
    /\ ~Contains(ln, <<MUSIC_SYMBOL>>)
    /\ ~scripture_search(ln)
    /\ ~speaker_match(ln).matched

\* the index of the last line of the speaker block that the speaker line
\* lines[s] opens: the plain lines that follow it
BlockEnd(lines, s) ==
    SetMax({ e \in s..Len(lines) : \A j \in (s + 1)..e : IsPlainLine(lines[j]) })

\* the speaker segment of the block that lines[s] opens: the text after the
\* colon and the following plain lines, joined with single spaces
BlockSegment(lines, s) ==
    Segment(T_speaker, PyStr(speaker_match(lines[s]).name),
            Strip(Join(<<speaker_match(lines[s]).rest>>
                       \o SubSeq(lines, s + 1, BlockEnd(lines, s)), <<" ">>)))

\* C26: the plain lines that follow a speaker line are joined with single
\* spaces into that speaker's segment; the block ends only at a music line, a
\* scripture line, another speaker line or the end of input, and its segment
\* is emitted right before the segment of the line that interrupted it.
C26_PlainLinesJoinSpeaker ==
    (pc = "segment_returned") =>
        \A s \in 1..Len(NonBlankLines(arg_raw_text)) :
            IsSpeakerLine(NonBlankLines(arg_raw_text)[s]) =>
                /\ (BlockEnd(NonBlankLines(arg_raw_text), s) > s) =>
                      \E p \in 1..Len(ret_segments) :
                          ret_segments[p] = BlockSegment(NonBlankLines(arg_raw_text), s)
                /\ (BlockEnd(NonBlankLines(arg_raw_text), s)
                        < Len(NonBlankLines(arg_raw_text))) =>
                      \E p \in 1..(Len(ret_segments) - 1) :
                          /\ ret_segments[p] = BlockSegment(NonBlankLines(arg_raw_text), s)
                          /\ Represents(ret_segments[p + 1],
                                 NonBlankLines(arg_raw_text)[
                                     BlockEnd(NonBlankLines(arg_raw_text), s) + 1])

-----------------------------------------------------------------------------
\* the line is classified by the line loop as a music line
IsMusicLine(ln) == Contains(ln, <<MUSIC_SYMBOL>>)

IsMusicSegment(seg) == DictGet(seg, K_type, None) = PyStr(T_music)

\* the position in segs of its m-th music segment
MusicPosition(segs, m) ==
    CHOOSE p \in 1..Len(segs) :
        /\ IsMusicSegment(segs[p])
        /\ Cardinality({ q \in 1..p : IsMusicSegment(segs[q]) }) = m

\* the number of music lines among lines[1..j]
MusicRank(lines, j) == Cardinality({ q \in 1..j : IsMusicLine(lines[q]) })

\* C27: the music segments of the result are, in order, the music lines of
\* the input, each line alone in its segment, whatever other pattern the line
\* matches; and when the line before a music line left a speaker or narration
\* buffer open, that buffer's segment directly precedes the music segment.
C27_MusicLinesAlone ==
    (pc = "segment_returned") =>
        /\ SelectSeq(ret_segments, IsMusicSegment)
              = [m \in 1..Len(SelectSeq(NonBlankLines(arg_raw_text), IsMusicLine)) |->
                    Segment(T_music, None,
                            SelectSeq(NonBlankLines(arg_raw_text), IsMusicLine)[m])]
        /\ \A j \in 2..Len(NonBlankLines(arg_raw_text)) :
              (/\ IsMusicLine(NonBlankLines(arg_raw_text)[j])
               /\ ~IsMusicLine(NonBlankLines(arg_raw_text)[j - 1])
               /\ ~scripture_search(NonBlankLines(arg_raw_text)[j - 1])) =>
                  /\ MusicPosition(ret_segments,
                                   MusicRank(NonBlankLines(arg_raw_text), j)) > 1
                  /\ ~IsMusicSegment(ret_segments[
                         MusicPosition(ret_segments,
                                       MusicRank(NonBlankLines(arg_raw_text), j)) - 1])
                  /\ Represents(ret_segments[
                         MusicPosition(ret_segments,
                                       MusicRank(NonBlankLines(arg_raw_text), j)) - 1],
                         NonBlankLines(arg_raw_text)[j - 1])

-----------------------------------------------------------------------------
\* every occurrence of an emphasis substring in the content, as the span
\* [start, end) it covers
Occurrences(txt, entries) ==
    { sp \in [start : 0..Len(txt), end : 0..Len(txt)] :
        \E k \in 1..Len(entries) :
            /\ sp.end = sp.start + Len(DictGet(entries[k], K_text, PyStr(<<>>)).v)
            /\ MatchAt(txt, DictGet(entries[k], K_text, PyStr(<<>>)).v, sp.start) }

\* the first of the spans in order of start position (the shorter one first
\* among those with the same start)
FirstSpan(spans) ==
    CHOOSE sp \in spans :
        \A other \in spans :
            sp.start < other.start \/ (sp.start = other.start /\ sp.end <= other.end)

RECURSIVE StyledInOrder(_, _)
\* the spans taken in order of start position: a span is styled iff it
\* starts at or after the end of the span styled before it
StyledInOrder(spans, last_end) ==
    IF spans = {} THEN <<>>
    ELSE IF FirstSpan(spans).start >= last_end
         THEN <<FirstSpan(spans)>>
              \o StyledInOrder(spans \ {FirstSpan(spans)}, FirstSpan(spans).end)
         ELSE StyledInOrder(spans \ {FirstSpan(spans)}, last_end)

RECURSIVE RunStart(_, _)
\* the index in the content where the k-th run starts
RunStart(runs, k) == IF k = 1 THEN 0 ELSE RunStart(runs, k - 1) + Len(runs[k - 1].text)

\* the spans of the styled runs, in the order of the runs
StyledSpans(runs) ==
    LET styled == SelectSeq([k \in 1..Len(runs) |-> k],
                            LAMBDA k : runs[k].bold \/ runs[k].italic)
    IN  [n \in 1..Len(styled) |->
            [start |-> RunStart(runs, styled[n]),
             end |-> RunStart(runs, styled[n]) + Len(runs[styled[n]].text)]]

\* C28: the styled spans are those of all occurrences of the emphasis
\* substrings that, taken in order of start position, start at or after the
\* end of the occurrence styled before; styled spans never overlap.
C28_FirstMatchWins ==
    (pc = "emphasis_returned") =>
        /\ StyledSpans(para) = StyledInOrder(Occurrences(text, emphasis_list), 0)
        /\ \A n \in 1..(Len(StyledSpans(para)) - 1) :
              StyledSpans(para)[n].end <= StyledSpans(para)[n + 1].start

-----------------------------------------------------------------------------
\* C29: one attempt counter and one backoff value serve both retryable error
\* kinds: whatever the mixture of rate-limit and transient failures, a chunk
\* gets at most 3 calls with waits 2 then 4, the counter counts every call of
\* the chunk and the backoff doubles with every failure; both start again at
\* 0 and 2 for the next chunk.
C29_CountersSharedByErrorKinds ==
    /\ \A k \in 1..Len(hist) :
          (\A n \in 1..Len(hist[k].errors) : Retryable(hist[k].errors[n])) =>
              /\ hist[k].calls <= MAX_ATTEMPTS
              /\ hist[k].waits = SubSeq(<<2, 4>>, 1, Min(Len(hist[k].errors), 2))
    /\ (pc = "call") =>
          /\ attempts = hist[Len(hist)].calls
          /\ attempts = Len(hist[Len(hist)].errors)
          /\ backoff = INITIAL_BACKOFF * BACKOFF_FACTOR ^ attempts
          /\ (hist[Len(hist)].calls = 0) => (attempts = 0 /\ backoff = 2)

\* C29 witness: a chunk failed three times with errors of both retryable
\* kinds and slept 2 then 4, and the next chunk is about to make its first
\* call with attempts 0 and backoff 2.
C29_Witness ==
    /\ pc = "call"
    /\ Len(hist) >= 2
    /\ hist[Len(hist)].calls = 0
    /\ attempts = 0
    /\ backoff = 2
    /\ LET k == Len(hist) - 1
       IN  /\ Len(hist[k].errors) = 3
           /\ hist[k].waits = <<2, 4>>
           /\ \E n, m \in 1..3 :
                 /\ hist[k].errors[n].rate_limit
                 /\ ~hist[k].errors[n].transient
                 /\ hist[k].errors[m].transient
                 /\ ~hist[k].errors[m].rate_limit

-----------------------------------------------------------------------------
\* C30: the request that leaves format_transcript gives the slot of the gate
\* back, also when format_transcript raised, so the gate is free whenever no
\* request is formatting; every request waiting on the gate is eventually
\* admitted and leaves: in the end every request is answered or has failed,
\* in format_transcript or, before it reached the gate, reading its upload.
C30_GateReleasedAndFair ==
    /\ [][(\E r \in DOMAIN requests :
              requests[r] = "formatting" /\ requests'[r] # "formatting")
            => format_semaphore' = format_semaphore + 1]_vars
    /\ []((\A r \in DOMAIN requests : requests[r] # "formatting")
            => format_semaphore = 1)
    /\ <>[](\A r \in DOMAIN requests : requests[r] \in {"responded", "failed", "error"})

\* C30 witness: a request whose format_transcript raised has left, and a
\* later request has been admitted and is formatting.
C30_Witness ==
    \E r, q \in DOMAIN requests :
        /\ requests[r] = "failed"
        /\ requests[q] = "formatting"
        /\ format_semaphore = 0

-----------------------------------------------------------------------------
\* C5: when split_text_into_chunks returns, the chunks concatenated in order
\* are the text exactly (contiguous slices: no gap, no overlap).
C5_ChunksReconstructText ==
    (pc = "returned") => (Concat(chunks) = text)

\* C5 witness: a text with a colon in the lookback window was cut into at
\* least three chunks, one of them extended past its nominal boundary.
C5_Witness ==
    /\ pc = "returned"
    /\ Len(chunks) >= 3
    /\ Len(text) > SPEAKER_LOOKBACK
    /\ \E k \in 1..Len(chunks) : Len(chunks[k]) > max_chunk_size

====
